---- MODULE Spec2Model ----
(***************************************************************************)
(* A model of the hierarchical focus-navigation engine of                  *)
(* src/src/controller/grid.rs: Rect, Point, Grid2D, LayoutGrid (navigate,  *)
(* try_navigate_to_point, try_navigate_out, navigate_into,                 *)
(* insert_to_growable_grid), LayoutGridBuilder and NavigationController.   *)
(*                                                                         *)
(* Nodes of the tree (Arc<Mutex<LayoutGrid>>) are named by their           *)
(* layout_id; every builder below uses distinct layout ids.  One top-level *)
(* NavigationController::navigate is a chain of node-local runs: each run  *)
(* executes the code of one node up to its return or up to the next        *)
(* Mutex::lock of another node, so that the locks held by the chain are    *)
(* part of the state.                                                      *)
(***************************************************************************)
EXTENDS Integers, Sequences, FiniteSets, TLC

VARIABLES
    grid,                \* layout_id -> Grid2D              (LayoutGrid.grid)
    layout_state,        \* layout_id -> Option<Point>       (LayoutGrid.layout_state)
    special_handler,     \* layout_id -> set of Buttons with an action
    parent,              \* layout_id -> layout_id or NoLayout
    sublayouts,          \* layout_id -> [LayoutID -> GridItem]
    grow_config,         \* layout_id -> Option<GrowConfig>
    root_layout,         \* NavigationController.root_layout
    current_layout_ref,  \* NavigationController.current_layout_ref
    current_focus_id,    \* NavigationController.current_focus_id
    pc,                  \* position of the driver thread
    chain,               \* the call chain of the navigate in progress
    pending,             \* what the innermost run came to (result or lock request)
    directive,           \* the directive of the last top-level navigate
    result,              \* what the last top-level call returned
    inserted,            \* layout_id -> number of insert calls made on a growable node
    builder,             \* the LayoutGridBuilder the tree is built from
    call                 \* the last call made on the API, with its arguments

vars == <<grid, layout_state, special_handler, parent, sublayouts, grow_config,
          root_layout, current_layout_ref, current_focus_id, pc, chain, pending,
          directive, result, inserted, builder, call>>

treeVars == <<special_handler, parent, sublayouts, root_layout, builder>>

-----------------------------------------------------------------------------
(* Bounds *)

\* how many insert calls a behaviour makes
MaxInserts == 4

-----------------------------------------------------------------------------
(* Rect, Point *)

NoLayout == ""
NoFocus == ""

Rect_new(x_start, x_end, y_start, y_end) ==
    IF x_end < x_start \/ y_end < y_start
    THEN [ok |-> FALSE, rect |-> [x_start |-> 0, x_end |-> 0, y_start |-> 0, y_end |-> 0]]
    ELSE [ok |-> TRUE,
          rect |-> [x_start |-> x_start, x_end |-> x_end,
                    y_start |-> y_start, y_end |-> y_end]]

\* Rect::new(..)? of a rect known to be well formed
Rc(x_start, x_end, y_start, y_end) == Rect_new(x_start, x_end, y_start, y_end).rect

Pt(x, y) == [x |-> x, y |-> y]

\* mutant: the top-right corner taken for the top-left one
top_left_as_top_right(rect) == Pt(rect.x_end, rect.y_start)

top_left(rect) == Pt(rect.x_start, rect.y_start)

\* mutant: the bottom-left corner taken for the bottom-right one
bottom_right_as_bottom_left(rect) == Pt(rect.x_start, rect.y_end)

bottom_right(rect) == Pt(rect.x_end, rect.y_end)

Point_add(pt, x, y) == Pt(pt.x + x, pt.y + y)

NoPoint == [some |-> FALSE, x |-> 0, y |-> 0]

SomePoint(x, y) == [some |-> TRUE, x |-> x, y |-> y]

-----------------------------------------------------------------------------
(* Direction *)

Directions == {"Up", "Down", "Left", "Right"}

\* mutant: the y axis taken to point upwards
as_dir_vector_y_up(d) ==
    CASE d = "Up" -> <<0, 1>>
      [] d = "Down" -> <<0, -1>>
      [] d = "Left" -> <<-1, 0>>
      [] d = "Right" -> <<1, 0>>

as_dir_vector(d) ==
    CASE d = "Up" -> <<0, -1>>
      [] d = "Down" -> <<0, 1>>
      [] d = "Left" -> <<-1, 0>>
      [] d = "Right" -> <<1, 0>>

\* mutant: the positive perpendicular side comes first
as_side_dir_vectors_positive_first(d) ==
    IF d \in {"Up", "Down"} THEN << <<1, 0>>, <<-1, 0>> >>
                            ELSE << <<0, 1>>, <<0, -1>> >>

as_side_dir_vectors(d) ==
    IF d \in {"Up", "Down"} THEN << <<-1, 0>>, <<1, 0>> >>
                            ELSE << <<0, -1>>, <<0, 1>> >>

-----------------------------------------------------------------------------
(* GridItem and Grid2D.  grid is the Vec<Vec<Option<T>>> (1-indexed here), *)
(* x_size and y_size the two size fields.                                  *)

NoItem == [kind |-> "None", id |-> "", rect |-> Rc(0, 0, 0, 0)]

Element(focus_id, rect) == [kind |-> "Element", id |-> focus_id, rect |-> rect]

Sublayout(layout, rect) == [kind |-> "Sublayout", id |-> layout, rect |-> rect]

Grid2D_new(x_size, y_size) ==
    [x_size |-> x_size, y_size |-> y_size,
     grid |-> [x \in 1..x_size |-> [y \in 1..y_size |-> NoItem]]]

within_bounds(g, x, y) == ~(x >= g.x_size \/ x < 0 \/ y >= g.y_size \/ y < 0)

within_bounds_point(g, pt) ==
    ~(pt.x >= g.x_size \/ pt.x < 0 \/ pt.y >= g.y_size \/ pt.y < 0)

\* the arguments are usize: a negative i32 cast to usize is huge
at(g, x, y) ==
    IF x >= g.x_size \/ y >= g.y_size \/ x < 0 \/ y < 0
    THEN [ok |-> FALSE, item |-> NoItem]
    ELSE [ok |-> TRUE, item |-> g.grid[x + 1][y + 1]]

\* self.grid[x][y] is an index into the Vecs: it panics outside them
Indexable(g, x, y) == x + 1 \in DOMAIN g.grid /\ y + 1 \in DOMAIN g.grid[x + 1]

\* the cells of rect in the order of the two nested for loops
CellBefore(a, b) == a[1] < b[1] \/ (a[1] = b[1] /\ a[2] < b[2])

RectCells(rect) == (rect.x_start .. rect.x_end) \X (rect.y_start .. rect.y_end)

\* the one member of a singleton set: {F(v) : v \in {e}} has e evaluated once
The(S) == CHOOSE r \in S : TRUE

fill_cells(g, rect, elem) ==
    IF rect.x_end > g.x_size \/ rect.y_end > g.y_size
    THEN [status |-> "Err", grid |-> g]
    ELSE LET stop == {c \in RectCells(rect) :
                         \/ ~Indexable(g, c[1], c[2])
                         \/ g.grid[c[1] + 1][c[2] + 1].kind # "None"}
         IN IF stop = {}
            THEN [status |-> "Ok",
                  grid |-> [g EXCEPT !.grid =
                              [x \in DOMAIN g.grid |->
                                 [y \in DOMAIN g.grid[x] |->
                                    IF <<x - 1, y - 1>> \in RectCells(rect)
                                    THEN elem ELSE g.grid[x][y]]]]]
            ELSE LET first == CHOOSE c \in stop : \A o \in stop : o = c \/ CellBefore(c, o)
                 IN IF Indexable(g, first[1], first[2])
                    THEN [status |-> "Err", grid |-> g]
                    ELSE [status |-> "Panic", grid |-> g]

\* Grid2D::fill: Err on an oversized or overlapping rect, a panic when the check
\* indexes outside the Vecs, else every cell of rect holds elem
fill(g, rect, elem) == The({fill_cells(v, rect, elem) : v \in {g}})

\* expand leaves x_size and y_size as they were: it only pushes onto the Vecs
expand(g, new_x_size, new_y_size) ==
    IF new_x_size < g.x_size \/ new_y_size < g.y_size
    THEN [ok |-> FALSE, grid |-> g]
    ELSE LET x_diff == new_x_size - g.x_size
             y_diff == new_y_size - g.y_size
             pushed == g.grid \o [i \in 1..x_diff |-> [y \in 1..new_y_size |-> NoItem]]
         IN [ok |-> TRUE,
             grid |-> [g EXCEPT !.grid =
                         [x \in DOMAIN pushed |->
                            IF x <= g.x_size
                            THEN pushed[x] \o [i \in 1..y_diff |-> NoItem]
                            ELSE pushed[x]]]]

-----------------------------------------------------------------------------
(* GrowConfig, LayoutGrid::new, LayoutGrid::new_growable *)

NoGrow == [some |-> FALSE, item_x |-> 0, item_y |-> 0, grow_direction |-> "GrowX",
           current_grow_point |-> Pt(0, 0)]

LayoutGrid_new(size_x, size_y, layout_id) ==
    [grid |-> Grid2D_new(size_x, size_y),
     layout_state |-> NoPoint,
     special_handler |-> {},
     parent |-> NoLayout,
     layout_id |-> layout_id,
     sublayouts |-> <<>>,
     grow_config |-> NoGrow]

new_growable(size_x, size_y, layout_id, grow_x, grow_y, grow_dir) ==
    [LayoutGrid_new(size_x, size_y, layout_id) EXCEPT
        !.grow_config = [some |-> TRUE, item_x |-> grow_x, item_y |-> grow_y,
                         grow_direction |-> grow_dir,
                         current_grow_point |-> Pt(0, 0)]]

-----------------------------------------------------------------------------
(* LayoutGridBuilder *)

NoGrowable == [some |-> FALSE, x |-> 0, y |-> 0, dir |-> "GrowX"]

Growable(x, y, dir) == [some |-> TRUE, x |-> x, y |-> y, dir |-> dir]

\* a builder after its add_element / set_growable / with_sublayout calls
Builder(size_x, size_y, layout_id, rects, subs, growable, is_root) ==
    [size_x |-> size_x, size_y |-> size_y, rects |-> rects, sublayouts |-> subs,
     layout_id |-> layout_id, is_root_builder |-> is_root,
     growable_config |-> growable]

\* LayoutGridBuilder::new
LayoutGridBuilder_new(size_x, size_y, layout_id) ==
    Builder(size_x, size_y, layout_id, << >>, << >>, NoGrowable, TRUE)

new_sub(size_x, size_y, layout_id) ==
    [LayoutGridBuilder_new(size_x, size_y, layout_id) EXCEPT !.is_root_builder = FALSE]

set_growable(b, size_x, size_y, dir) ==
    IF b.rects # << >>
    THEN [ok |-> FALSE, builder |-> b]
    ELSE [ok |-> TRUE, builder |-> [b EXCEPT !.growable_config = Growable(size_x, size_y, dir)]]

\* mutant: elements are accepted whatever the grow configuration
add_element_unchecked(b, rect, focus_id) ==
    [ok |-> TRUE, builder |-> [b EXCEPT !.rects = Append(@, <<rect, focus_id>>)]]

add_element(b, rect, focus_id) ==
    IF b.growable_config.some
    THEN [ok |-> FALSE, builder |-> b]
    ELSE [ok |-> TRUE, builder |-> [b EXCEPT !.rects = Append(@, <<rect, focus_id>>)]]

\* with_sublayout: the builder with the new sub-builder pushed; the call returns a
\* handle to that sub-builder
with_sublayout(b, rect, layout_id, size_x, size_y) ==
    [b EXCEPT !.sublayouts = Append(@, <<rect, layout_id, new_sub(size_x, size_y, layout_id)>>)]

BuildFailed == [ok |-> FALSE, nodes |-> <<>>]

RECURSIVE fill_rects(_, _, _)
fill_rects(g, rects, i) ==
    IF i > Len(rects) THEN [status |-> "Ok", grid |-> g]
    ELSE The({IF f.status # "Ok" THEN f ELSE fill_rects(f.grid, rects, i + 1) :
              f \in {fill(g, rects[i][1], Element(rects[i][2], rects[i][1]))}})

RECURSIVE build_sub(_, _)
RECURSIVE build_sublayouts(_, _, _)

\* the loop over self.sublayouts; nodes holds this layout and all nodes built so far
build_sublayouts(b, i, nodes) ==
    IF i > Len(b.sublayouts) THEN [ok |-> TRUE, nodes |-> nodes]
    ELSE LET sub_rect == b.sublayouts[i][1]
             sub_layout_id == b.sublayouts[i][2]
             e == Sublayout(b.sublayouts[i][3].layout_id, sub_rect)
         IN The({IF ~sub.ok \/ f.status # "Ok" THEN BuildFailed
                 ELSE build_sublayouts(b, i + 1,
                         sub.nodes @@
                         [nodes EXCEPT ![b.layout_id] =
                             [@ EXCEPT !.grid = f.grid,
                                       !.sublayouts = (sub_layout_id :> e) @@ @]]) :
                 sub \in {build_sub(b.sublayouts[i][3], b.layout_id)},
                 f \in {fill(nodes[b.layout_id].grid, sub_rect, e)}})

\* mutant: the node is built without the link to its parent
build_sub_unlinked(b, parent_ref) ==
    LET this_layout ==
            IF b.growable_config.some
            THEN new_growable(b.size_x, b.size_y, b.layout_id, b.growable_config.x,
                              b.growable_config.y, b.growable_config.dir)
            ELSE LayoutGrid_new(b.size_x, b.size_y, b.layout_id)
    IN IF b.size_x <= 0 \/ b.size_y <= 0 THEN BuildFailed
       ELSE The({IF f.status # "Ok" THEN BuildFailed
                 ELSE The({build_sublayouts(b, 1, nodes) :
                           nodes \in {b.layout_id :> [this_layout EXCEPT !.grid = f.grid]}}) :
                 f \in {fill_rects(this_layout.grid, b.rects, 1)}})

build_sub(b, parent_ref) ==
    LET this_layout ==
            IF b.growable_config.some
            THEN new_growable(b.size_x, b.size_y, b.layout_id, b.growable_config.x,
                              b.growable_config.y, b.growable_config.dir)
            ELSE LayoutGrid_new(b.size_x, b.size_y, b.layout_id)
    IN IF b.size_x <= 0 \/ b.size_y <= 0 THEN BuildFailed
       ELSE The({IF f.status # "Ok" THEN BuildFailed
                 ELSE The({build_sublayouts(b, 1, nodes) :
                           nodes \in {b.layout_id :>
                                        [this_layout EXCEPT !.parent = parent_ref,
                                                            !.grid = f.grid]}}) :
                 f \in {fill_rects(this_layout.grid, b.rects, 1)}})

build(b) == IF ~b.is_root_builder THEN BuildFailed ELSE build_sub(b, NoLayout)

-----------------------------------------------------------------------------
(* The trees the model is run on.  simple_layout and nested_layout are the *)
(* two layouts of the tests, home_layout is create_home_window_controller; *)
(* the others are further inputs of the builder API.                       *)

simple_layout ==
    Builder(10, 5, "L0",
            << <<Rc(0, 1, 0, 1), "0_alpha">>, <<Rc(2, 2, 0, 1), "0_beta">> >>,
            << >>, NoGrowable, TRUE)

nested_layout ==
    Builder(10, 5, "L0",
            << <<Rc(0, 1, 0, 1), "0_alpha">>, <<Rc(2, 2, 0, 1), "0_beta">> >>,
            << <<Rc(0, 9, 2, 4), "L1",
                 Builder(7, 10, "L1",
                         << <<Rc(0, 0, 0, 9), "1_alpha">>, <<Rc(1, 1, 0, 9), "1_beta">> >>,
                         << >>, NoGrowable, FALSE)>> >>,
            NoGrowable, TRUE)

home_layout ==
    Builder(4, 6, "Home",
            << <<Rc(0, 0, 0, 0), "BTN@GAMES">>,
               <<Rc(1, 1, 0, 0), "BTN@RECENTLY_PLAYED">>,
               <<Rc(3, 3, 0, 0), "BTN@SETTINGS">> >>,
            << <<Rc(0, 3, 1, 5), "Home@Games",
                 Builder(7, 10, "Home@Games", << >>, << >>,
                         Growable(1, 1, "GrowX"), FALSE)>> >>,
            NoGrowable, TRUE)

\* a header element over a one-row growable strip
strip_layout ==
    Builder(3, 2, "S0",
            << <<Rc(0, 0, 0, 0), "s_head">> >>,
            << <<Rc(0, 2, 1, 1), "S1",
                 Builder(3, 1, "S1", << >>, << >>, Growable(1, 1, "GrowX"), FALSE)>> >>,
            NoGrowable, TRUE)

\* an element beside a one-column strip growing downwards, items two cells high
column_layout ==
    Builder(2, 4, "C0",
            << <<Rc(0, 0, 0, 0), "c_head">> >>,
            << <<Rc(1, 1, 0, 3), "C1",
                 Builder(1, 4, "C1", << >>, << >>, Growable(1, 2, "GrowY"), FALSE)>> >>,
            NoGrowable, TRUE)

\* three levels: D0 holds D1, D1 holds D2
deep_layout ==
    Builder(3, 3, "D0",
            << <<Rc(0, 0, 0, 0), "d_a">>, <<Rc(2, 2, 0, 0), "d_e">> >>,
            << <<Rc(0, 2, 1, 2), "D1",
                 Builder(2, 2, "D1",
                         << <<Rc(0, 0, 1, 1), "d_b">> >>,
                         << <<Rc(1, 1, 0, 1), "D2",
                              Builder(1, 2, "D2",
                                      << <<Rc(0, 0, 0, 0), "d_c">>,
                                         <<Rc(0, 0, 1, 1), "d_d">> >>,
                                      << >>, NoGrowable, FALSE)>> >>,
                         NoGrowable, FALSE)>> >>,
            NoGrowable, TRUE)

\* a root whose cell (0, 0) holds a sublayout
corner_layout ==
    Builder(2, 2, "K0",
            << <<Rc(1, 1, 0, 0), "k_a">> >>,
            << <<Rc(0, 0, 0, 0), "K1",
                 Builder(1, 1, "K1", << <<Rc(0, 0, 0, 0), "k_b">> >>, << >>,
                         NoGrowable, FALSE)>> >>,
            NoGrowable, TRUE)

\* a root whose cell (0, 0) is empty
hollow_layout ==
    Builder(2, 2, "H0", << <<Rc(1, 1, 1, 1), "h_a">> >>, << >>, NoGrowable, TRUE)

\* an element over a growable block of two rows, one-cell items, growing rightwards
wrap_layout ==
    Builder(2, 3, "W0",
            << <<Rc(0, 0, 0, 0), "w_head">> >>,
            << <<Rc(0, 1, 1, 2), "W1",
                 Builder(2, 2, "W1", << >>, << >>, Growable(1, 1, "GrowX"), FALSE)>> >>,
            NoGrowable, TRUE)

\* a root with an empty column under f_mid: beside that column a sublayout in front
\* of f_hidden on the left, then f_far two cells to the left and f_near one cell to
\* the right
fence_layout ==
    Builder(5, 3, "F0",
            << <<Rc(0, 1, 0, 0), "f_start">>, <<Rc(3, 3, 0, 0), "f_mid">>,
               <<Rc(0, 0, 1, 1), "f_hidden">>, <<Rc(0, 1, 2, 2), "f_far">>,
               <<Rc(4, 4, 2, 2), "f_near">> >>,
            << <<Rc(1, 1, 1, 1), "F1",
                 Builder(1, 1, "F1", << <<Rc(0, 0, 0, 0), "f_in">> >>, << >>,
                         NoGrowable, FALSE)>> >>,
            NoGrowable, TRUE)

Builders == {simple_layout, nested_layout, home_layout, strip_layout, column_layout,
             deep_layout, corner_layout, hollow_layout, wrap_layout, fence_layout}

Buttons == {"LeftTrigger"}

\* the focus ids handed to insert, in order
FocusIds == <<"GAME@aaaa", "GAME@bbbb", "GAME@cccc", "GAME@dddd", "GAME@eeee",
              "GAME@ffff", "GAME@gggg", "GAME@hhhh">>

-----------------------------------------------------------------------------
(* NavigationDirective, NavigationResult *)

Direction(d) == [kind |-> "Direction", arg |-> d]

Button(b) == [kind |-> "Button", arg |-> b]

Noop == [kind |-> "Noop", arg |-> ""]

Directives == {Direction(d) : d \in Directions} \cup {Button(b) : b \in Buttons} \cup {Noop}

NoFraction == <<0, 1>>

\* what a run of one node comes to: a NavigationResult (WithinLayout, AcrossLayout,
\* NoNextItem), an error (Err), a panic, Ok(None) of try_navigate_to_point (None),
\* or the Mutex::lock it asks for next (ToChild, ToParent, Relock).  ls is the
\* node's layout_state at that moment.
Outcome(kind, ls, id, layout, fx, fy, dir) ==
    [kind |-> kind, ls |-> ls, id |-> id, layout |-> layout, fx |-> fx, fy |-> fy,
     directive |-> dir]

Plain(kind, ls) == Outcome(kind, ls, NoFocus, NoLayout, NoFraction, NoFraction, Noop)

NoPending == Plain("None", NoPoint)

WithinLayout(focus_id) == [kind |-> "WithinLayout", id |-> focus_id, layout |-> NoLayout]

AcrossLayout(focus_id, layout) == [kind |-> "AcrossLayout", id |-> focus_id, layout |-> layout]

NoNextItem == [kind |-> "NoNextItem", id |-> NoFocus, layout |-> NoLayout]

Failed == [kind |-> "Err", id |-> NoFocus, layout |-> NoLayout]

Done == [kind |-> "Ok", id |-> NoFocus, layout |-> NoLayout]

NoResult == [kind |-> "None", id |-> NoFocus, layout |-> NoLayout]

ResultOf(out) == [kind |-> out.kind, id |-> out.id, layout |-> out.layout]

-----------------------------------------------------------------------------
(* The locks of the chain.  A frame is one node entered by the chain: the   *)
(* node, the bundle it was entered with, and the Sublayout item whose guard *)
(* the caller keeps while the child runs (try_navigate_to_point).           *)

LayoutLock(n) == <<"layout", n>>

ItemLock(n) == <<"item", n>>

Frame(node, kind, fx, fy, dir, layout_id, item) ==
    [node |-> node, kind |-> kind, fx |-> fx, fy |-> fy, directive |-> dir,
     layout_id |-> layout_id, item |-> item]

HeldLocks ==
    {LayoutLock(chain[i].node) : i \in 1..Len(chain)} \cup
    {ItemLock(chain[i].item) : i \in {j \in 1..Len(chain) : chain[j].item # NoLayout}}

RequestedLocks(out) ==
    CASE out.kind = "ToChild" -> {ItemLock(out.layout), LayoutLock(out.layout)}
      [] out.kind = "ToParent" -> {LayoutLock(out.layout)}
      [] out.kind = "RelockItem" -> {ItemLock(out.layout)}
      [] out.kind = "RelockLayout" -> {LayoutLock(out.layout)}
      [] OTHER -> {}

-----------------------------------------------------------------------------
(* LayoutGrid: the code one node runs.  n is the node, ls its layout_state  *)
(* at that point of the run (set_point may already have moved it).          *)

\* set_point(x, y): the new layout_state, or an error outside the bounds
set_point(n, x, y) ==
    IF ~within_bounds(grid[n], x, y)
    THEN [ok |-> FALSE, ls |-> NoPoint]
    ELSE [ok |-> TRUE, ls |-> SomePoint(x, y)]

\* mutant: a Sublayout under the layout_state counts as the current item
current_item_any_occupant(n, ls) ==
    LET none == [ok |-> FALSE, id |-> NoFocus, rect |-> Rc(0, 0, 0, 0), lock |-> NoLayout]
        cell == at(grid[n], ls.x, ls.y)
    IN IF ~ls.some \/ ~cell.ok \/ cell.item = NoItem THEN none
       ELSE [ok |-> TRUE, id |-> cell.item.id, rect |-> cell.item.rect, lock |-> NoLayout]

\* current_item: (focus id, rect) of the Element under the layout_state.  On a
\* Sublayout the error message is built from layout.lock().unwrap().layout_id.
current_item(n, ls) ==
    LET none == [ok |-> FALSE, id |-> NoFocus, rect |-> Rc(0, 0, 0, 0), lock |-> NoLayout]
        cell == at(grid[n], ls.x, ls.y)
    IN IF ~ls.some \/ ~cell.ok THEN none
       ELSE CASE cell.item.kind = "Element" ->
                    [ok |-> TRUE, id |-> cell.item.id, rect |-> cell.item.rect,
                     lock |-> NoLayout]
              [] cell.item.kind = "Sublayout" -> [none EXCEPT !.lock = cell.item.id]
              [] OTHER -> none

\* mutant: an Element is returned without the focus point being moved to it
try_navigate_to_point_unmoved(n, ls, x, y, dir) ==
    LET cell == at(grid[n], x, y)
        item == cell.item
    IN IF ~cell.ok THEN Plain("Err", ls)
       ELSE CASE item.kind = "None" -> Plain("None", ls)
              [] item.kind = "Element" ->
                    Outcome("WithinLayout", ls, item.id, NoLayout, NoFraction, NoFraction, dir)
              [] item.kind = "Sublayout" ->
                    Outcome("ToChild", ls, NoFocus, item.id,
                            <<x - item.rect.x_start, item.rect.x_end - item.rect.x_start>>,
                            <<y - item.rect.y_start, item.rect.y_end - item.rect.y_start>>,
                            dir)

\* try_navigate_to_point up to the lock of the child: Ok(None) on an empty cell,
\* WithinLayout with the point set on an Element, the entry into the child (with
\* the fractions x_in, y_in as numerator and denominator) on a Sublayout
try_navigate_to_point(n, ls, x, y, dir) ==
    LET cell == at(grid[n], x, y)
        item == cell.item
        sp == set_point(n, x, y)
    IN IF ~cell.ok THEN Plain("Err", ls)
       ELSE CASE item.kind = "None" -> Plain("None", ls)
              [] item.kind = "Element" ->
                    IF ~sp.ok THEN Plain("Err", ls)
                    ELSE Outcome("WithinLayout", sp.ls, item.id, NoLayout,
                                 NoFraction, NoFraction, dir)
              [] item.kind = "Sublayout" ->
                    Outcome("ToChild", ls, NoFocus, item.id,
                            <<x - item.rect.x_start, item.rect.x_end - item.rect.x_start>>,
                            <<y - item.rect.y_start, item.rect.y_end - item.rect.y_start>>,
                            dir)

\* mutant: the exit fractions taken over the last index instead of the size
try_navigate_out_last_index(n, ls, out_from, dir) ==
    IF parent[n] # NoLayout
    THEN Outcome("ToParent", ls, NoFocus, parent[n],
                 <<out_from.x, grid[n].x_size - 1>>, <<out_from.y, grid[n].y_size - 1>>, dir)
    ELSE Plain("NoNextItem", ls)

\* mutant: a node at the edge of its grid never leaves for its parent
try_navigate_out_never(n, ls, out_from, dir) == Plain("NoNextItem", ls)

\* try_navigate_out up to the lock of the parent: the exit fractions are
\* out_from.x / x_size and out_from.y / y_size
try_navigate_out(n, ls, out_from, dir) ==
    IF parent[n] # NoLayout
    THEN Outcome("ToParent", ls, NoFocus, parent[n],
                 <<out_from.x, grid[n].x_size>>, <<out_from.y, grid[n].y_size>>, dir)
    ELSE Plain("NoNextItem", ls)

\* mutant: the primary scan passes over Sublayout cells
RECURSIVE primary_scan_elements_only(_, _, _, _, _)
primary_scan_elements_only(n, ls, next, dv, dir) ==
    IF ~within_bounds(grid[n], next.x, next.y) THEN Plain("None", ls)
    ELSE LET r == try_navigate_to_point(n, ls, next.x, next.y, dir)
         IN IF r.kind \notin {"None", "ToChild"} THEN r
            ELSE primary_scan_elements_only(n, ls, Point_add(next, dv[1], dv[2]), dv, dir)

\* the first while loop of navigate: cell by cell along the direction
RECURSIVE primary_scan(_, _, _, _, _)
primary_scan(n, ls, next, dv, dir) ==
    IF ~within_bounds(grid[n], next.x, next.y) THEN Plain("None", ls)
    ELSE LET r == try_navigate_to_point(n, ls, next.x, next.y, dir)
         IN IF r.kind # "None" THEN r
            ELSE primary_scan(n, ls, Point_add(next, dv[1], dv[2]), dv, dir)

\* mutant: a side probe passes over a Sublayout cell and goes on behind it
RECURSIVE side_probe_through(_, _, _, _, _)
side_probe_through(n, ls, dir_point, sv, dir) ==
    IF ~within_bounds(grid[n], dir_point.x, dir_point.y) THEN Plain("None", ls)
    ELSE LET r == IF at(grid[n], dir_point.x, dir_point.y).item.kind = "Sublayout"
                  THEN Plain("None", ls)
                  ELSE try_navigate_to_point(n, ls, dir_point.x, dir_point.y, dir)
         IN IF r.kind # "None" THEN r
            ELSE side_probe_through(n, ls, Point_add(dir_point, sv[1], sv[2]), sv, dir)

\* the innermost while loop of navigate: one side, outwards from the primary line
RECURSIVE side_probe(_, _, _, _, _)
side_probe(n, ls, dir_point, sv, dir) ==
    IF ~within_bounds(grid[n], dir_point.x, dir_point.y) THEN Plain("None", ls)
    ELSE IF at(grid[n], dir_point.x, dir_point.y).item.kind = "Sublayout"
         THEN Plain("None", ls)
         ELSE LET r == try_navigate_to_point(n, ls, dir_point.x, dir_point.y, dir)
              IN IF r.kind # "None" THEN r
                 ELSE side_probe(n, ls, Point_add(dir_point, sv[1], sv[2]), sv, dir)

\* the second while loop of navigate: both sides at each point of the primary line
RECURSIVE side_scan(_, _, _, _, _)
side_scan(n, ls, next, d, dir) ==
    IF ~within_bounds(grid[n], next.x, next.y) THEN Plain("None", ls)
    ELSE LET dv == as_dir_vector(d)
             sides == as_side_dir_vectors(d)
             a == side_probe(n, ls, Point_add(next, sides[1][1], sides[1][2]), sides[1], dir)
             b == side_probe(n, ls, Point_add(next, sides[2][1], sides[2][2]), sides[2], dir)
         IN IF a.kind # "None" THEN a
            ELSE IF b.kind # "None" THEN b
            ELSE side_scan(n, ls, Point_add(next, dv[1], dv[2]), d, dir)

\* mutant: the scan starts from the raw focus point, not from a corner of the rect
navigate_direction_from_point(n, ls, d) ==
    LET dir == Direction(d)
        cur == current_item(n, ls)
        corner == Pt(ls.x, ls.y)
        dv == as_dir_vector(d)
        next == Point_add(corner, dv[1], dv[2])
        line == primary_scan(n, ls, next, dv, dir)
        side == side_scan(n, ls, next, d, dir)
    IN IF cur.lock # NoLayout /\ LayoutLock(cur.lock) \in HeldLocks
       THEN Outcome("RelockLayout", ls, NoFocus, cur.lock, NoFraction, NoFraction, dir)
       ELSE IF ~cur.ok /\ ~ls.some THEN Plain("Panic", ls)
       ELSE IF ~within_bounds(grid[n], next.x, next.y)
            THEN try_navigate_out(n, ls, corner, dir)
       ELSE IF line.kind # "None" THEN line
       ELSE IF side.kind # "None" THEN side
       ELSE Plain("NoNextItem", ls)

\* navigate(Direction(d))
navigate_direction(n, ls, d) ==
    LET dir == Direction(d)
        cur == current_item(n, ls)
        corner == IF cur.ok
                  THEN (IF d \in {"Up", "Left"} THEN top_left(cur.rect)
                                                ELSE bottom_right(cur.rect))
                  ELSE Pt(ls.x, ls.y)
        dv == as_dir_vector(d)
        next == Point_add(corner, dv[1], dv[2])
        line == primary_scan(n, ls, next, dv, dir)
        side == side_scan(n, ls, next, d, dir)
    IN IF cur.lock # NoLayout /\ LayoutLock(cur.lock) \in HeldLocks
       THEN Outcome("RelockLayout", ls, NoFocus, cur.lock, NoFraction, NoFraction, dir)
       ELSE IF ~cur.ok /\ ~ls.some THEN Plain("Panic", ls)
       ELSE IF ~within_bounds(grid[n], next.x, next.y)
            THEN try_navigate_out(n, ls, corner, dir)
       ELSE IF line.kind # "None" THEN line
       ELSE IF side.kind # "None" THEN side
       ELSE Plain("NoNextItem", ls)

\* mutant: Noop moves the focus point to the top-left corner of the current Element
navigate_noop_normalising(n, ls) ==
    LET cur == current_item(n, ls)
    IN IF cur.ok
       THEN Outcome("WithinLayout", SomePoint(cur.rect.x_start, cur.rect.y_start), cur.id,
                    NoLayout, NoFraction, NoFraction, Noop)
       ELSE Plain("Err", ls)

\* navigate(Noop), and navigate(Button(b)) without a special action for b
navigate_noop(n, ls) ==
    LET cur == current_item(n, ls)
    IN IF cur.lock # NoLayout /\ LayoutLock(cur.lock) \in HeldLocks
       THEN Outcome("RelockLayout", ls, NoFocus, cur.lock, NoFraction, NoFraction, Noop)
       ELSE IF cur.ok
            THEN Outcome("WithinLayout", ls, cur.id, NoLayout, NoFraction, NoFraction, Noop)
            ELSE Plain("Err", ls)

\* the special action of a button: NavigateOutRight or NavigateOutLeft
SpecialAction(n, b) ==
    IF \E h \in special_handler[n] : h[1] = b
    THEN (CHOOSE h \in special_handler[n] : h[1] = b)[2]
    ELSE "NoAction"

\* mutant: a button without a special action falls through to the grid navigation
navigate_button_scans(n, ls, dir) ==
    IF dir.kind = "Noop" THEN navigate_noop(n, ls)
    ELSE navigate_direction(n, ls, IF dir.kind = "Direction" THEN dir.arg ELSE "Right")

navigate(n, ls, dir) ==
    LET action == IF dir.kind = "Button" THEN SpecialAction(n, dir.arg) ELSE "NoAction"
        corner == IF action = "NavigateOutRight" THEN Pt(grid[n].x_size - 1, 0)
                                                 ELSE Pt(0, 0)
        sp == set_point(n, corner.x, corner.y)
    IN IF action # "NoAction"
       THEN (IF ~sp.ok THEN Plain("Err", ls)
             ELSE navigate_direction(n, sp.ls,
                      IF action = "NavigateOutRight" THEN "Left" ELSE "Right"))
       ELSE IF dir.kind = "Direction" THEN navigate_direction(n, ls, dir.arg)
       ELSE navigate_noop(n, ls)

\* `f as usize` of the fraction num / den: 0 / 0 is NaN and casts to 0
AsUsize(f) == IF f[2] = 0 THEN 0 ELSE f[1] \div f[2]

\* (extent as f64 * (num / den)) as usize
Scaled(extent, f) == IF f[2] = 0 THEN 0 ELSE (extent * f[1]) \div f[2]

\* the landing of a child -> parent crossing in the parent's grid
ExitLanding(rect, fx, fy) ==
    Pt(Scaled(rect.x_end - rect.x_start, fx), Scaled(rect.y_end - rect.y_start, fy))

\* the landing of a parent -> child crossing in the child's grid
EntryLanding(g, fx, fy) == Pt((g.x_size - 1) * AsUsize(fx), (g.y_size - 1) * AsUsize(fy))

\* mutant: the landing cell is not looked at, the scan runs from it at once
land_scan_only(n, sp, dir) == navigate(n, sp.ls, dir)

\* after set_point at the landing: the occupant there, else navigate(directive)
land(n, sp, dir) ==
    LET r == try_navigate_to_point(n, sp.ls, sp.ls.x, sp.ls.y, dir)
    IN IF r.kind # "None" THEN r ELSE navigate(n, sp.ls, dir)

\* navigate_into(NavigateToParent((exit_x, exit_y), directive, layout_id))
navigate_into_parent(n, ls, fx, fy, dir, layout_id) ==
    IF layout_id \notin DOMAIN sublayouts[n] THEN Plain("Err", ls)
    ELSE LET item == sublayouts[n][layout_id]
             pt == ExitLanding(item.rect, fx, fy)
             sp == set_point(n, pt.x, pt.y)
         IN IF ItemLock(item.id) \in HeldLocks
            THEN Outcome("RelockItem", ls, NoFocus, item.id, NoFraction, NoFraction, dir)
            ELSE IF item.kind # "Sublayout" \/ ~sp.ok THEN Plain("Err", ls)
            ELSE land(n, sp, dir)

\* navigate_into(NavigateToChild((in_x, in_y), directive))
navigate_into_child(n, ls, fx, fy, dir) ==
    LET pt == EntryLanding(grid[n], fx, fy)
        sp == set_point(n, pt.x, pt.y)
    IN IF ~sp.ok THEN Plain("Err", ls) ELSE land(n, sp, dir)

\* the run of the innermost frame of the chain
LocalRun(f) ==
    CASE f.kind = "Navigate" -> navigate(f.node, layout_state[f.node], f.directive)
      [] f.kind = "NavigateToParent" ->
            navigate_into_parent(f.node, layout_state[f.node], f.fx, f.fy, f.directive,
                                 f.layout_id)
      [] f.kind = "NavigateToChild" ->
            navigate_into_child(f.node, layout_state[f.node], f.fx, f.fy, f.directive)

\* mutant: the callee's WithinLayout is handed on as it is
Translate_within(out, callee) == out

\* the match on the callee's result in try_navigate_to_point and try_navigate_out:
\* WithinLayout becomes AcrossLayout with a reference to the callee, the rest is
\* handed on; `?` hands an error on
Translate(out, callee) ==
    IF out.kind = "WithinLayout" THEN [out EXCEPT !.kind = "AcrossLayout", !.layout = callee]
                                 ELSE out

-----------------------------------------------------------------------------
(* insert_to_growable_grid *)

\* mutant: the rect is written without the check that its cells are empty
place_overwriting(g, gc, rect, focus_id) ==
    LET elem == Element(focus_id, rect)
        moved == IF gc.grow_direction = "GrowX" THEN Pt(rect.x_end + 1, rect.y_end)
                                                ELSE Pt(rect.x_end, rect.y_end + 1)
    IN IF \A c \in RectCells(rect) : Indexable(g, c[1], c[2])
       THEN [status |-> "Ok",
             grid |-> [g EXCEPT !.grid =
                         [x \in DOMAIN g.grid |->
                            [y \in DOMAIN g.grid[x] |->
                               IF <<x - 1, y - 1>> \in RectCells(rect)
                               THEN elem ELSE g.grid[x][y]]]],
             grow_config |-> [gc EXCEPT !.current_grow_point = moved], rect |-> rect]
       ELSE [status |-> "Err", grid |-> g, grow_config |-> gc, rect |-> rect]

\* fill the rect with the new Element and move current_grow_point behind it
place(g, gc, rect, focus_id) ==
    LET f == fill(g, rect, Element(focus_id, rect))
        moved == IF gc.grow_direction = "GrowX" THEN Pt(rect.x_end + 1, rect.y_end)
                                                ELSE Pt(rect.x_end, rect.y_end + 1)
    IN IF f.status = "Ok"
       THEN [status |-> "Ok", grid |-> f.grid,
             grow_config |-> [gc EXCEPT !.current_grow_point = moved], rect |-> rect]
       ELSE [status |-> f.status, grid |-> f.grid, grow_config |-> gc, rect |-> rect]

\* mutant: a node without a grow config takes one-cell items at its cursor
insert_to_growable_grid_unconfigured(n, focus_id) ==
    LET cur == grow_config[n].current_grow_point
    IN place(grid[n], grow_config[n], Rc(cur.x, cur.x, cur.y, cur.y), focus_id)

insert_to_growable_grid(n, focus_id) ==
    LET gc == grow_config[n]
        g == grid[n]
        cur == gc.current_grow_point
        first == IF gc.grow_direction = "GrowX"
                 THEN Rect_new(cur.x, cur.x + gc.item_x - 1, cur.y, cur.y)
                 ELSE Rect_new(cur.x, cur.x, cur.y, cur.y + gc.item_y - 1)
        wrapped == IF gc.grow_direction = "GrowX"
                   THEN Rect_new(0, gc.item_x, cur.y, cur.y + gc.item_y)
                   ELSE Rect_new(cur.x, cur.x + gc.item_x, 0, gc.item_y)
        grown == IF gc.grow_direction = "GrowX"
                 THEN expand(g, g.x_size, g.y_size + gc.item_y)
                 ELSE expand(g, g.x_size + gc.item_x, g.y_size)
        failed == [status |-> "Err", grid |-> g, grow_config |-> gc, rect |-> Rc(0, 0, 0, 0)]
    IN IF ~gc.some \/ ~first.ok THEN failed
       ELSE IF within_bounds_point(g, top_left(first.rect))
            THEN place(g, gc, first.rect, focus_id)
       ELSE IF ~wrapped.ok THEN failed
       ELSE IF within_bounds_point(g, top_left(wrapped.rect))
            THEN place(g, gc, wrapped.rect, focus_id)
       ELSE IF ~grown.ok THEN failed
       ELSE place(grown.grid, gc, wrapped.rect, focus_id)

-----------------------------------------------------------------------------
(* NavigationController *)

\* mutant: AcrossLayout updates the cached focus id but not the current node
controller_navigate_stale(layout_ref, focus_id, out) ==
    CASE out.kind \in {"WithinLayout", "AcrossLayout"} ->
            [layout_ref |-> layout_ref, focus_id |-> out.id,
             result |-> [kind |-> out.kind, id |-> out.id, layout |-> out.layout]]
      [] out.kind = "NoNextItem" ->
            [layout_ref |-> layout_ref, focus_id |-> focus_id,
             result |-> [kind |-> "NoNextItem", id |-> NoFocus, layout |-> NoLayout]]
      [] OTHER ->
            [layout_ref |-> layout_ref, focus_id |-> focus_id,
             result |-> [kind |-> "Err", id |-> NoFocus, layout |-> NoLayout]]

\* the match of NavigationController::navigate on the result of the current node
controller_navigate(layout_ref, focus_id, out) ==
    CASE out.kind = "WithinLayout" ->
            [layout_ref |-> layout_ref, focus_id |-> out.id, result |-> WithinLayout(out.id)]
      [] out.kind = "AcrossLayout" ->
            [layout_ref |-> out.layout, focus_id |-> out.id,
             result |-> AcrossLayout(out.id, out.layout)]
      [] out.kind = "NoNextItem" ->
            [layout_ref |-> layout_ref, focus_id |-> focus_id, result |-> NoNextItem]
      [] OTHER ->
            [layout_ref |-> layout_ref, focus_id |-> focus_id, result |-> Failed]

\* get_sublayout_by_id: the children the root's index names
get_sublayout_by_id(id) ==
    IF id \in DOMAIN sublayouts[root_layout] /\ sublayouts[root_layout][id].kind = "Sublayout"
    THEN sublayouts[root_layout][id].id
    ELSE NoLayout

-----------------------------------------------------------------------------
(* Calls: the operation, the node it is made on, and its arguments *)

Call(op, node, rect, id, x, y) ==
    [op |-> op, node |-> node, rect |-> rect, id |-> id, x |-> x, y |-> y]

NoCall == Call("none", NoLayout, Rc(0, 0, 0, 0), NoFocus, 0, 0)

\* a call on a node with no further arguments but an identifier
NodeCall(op, node, id) == Call(op, node, Rc(0, 0, 0, 0), id, 0, 0)

-----------------------------------------------------------------------------
(* Initial states: a tree as LayoutGridBuilder::build returns it *)

Nodes == DOMAIN grid

Init ==
    \E b \in Builders : \E built \in {build(b)} :
           /\ built.ok
           /\ grid = [n \in DOMAIN built.nodes |-> built.nodes[n].grid]
           /\ layout_state = [n \in DOMAIN built.nodes |-> built.nodes[n].layout_state]
           /\ special_handler = [n \in DOMAIN built.nodes |-> built.nodes[n].special_handler]
           /\ parent = [n \in DOMAIN built.nodes |-> built.nodes[n].parent]
           /\ sublayouts = [n \in DOMAIN built.nodes |-> built.nodes[n].sublayouts]
           /\ grow_config = [n \in DOMAIN built.nodes |-> built.nodes[n].grow_config]
           /\ root_layout = b.layout_id
           /\ current_layout_ref = NoLayout
           /\ current_focus_id = NoFocus
           /\ pc = "built"
           /\ chain = << >>
           /\ pending = NoPending
           /\ directive = Noop
           /\ result = NoResult
           /\ inserted = [n \in DOMAIN built.nodes |-> 0]
           /\ builder = b
           /\ call = NodeCall("build", b.layout_id, NoFocus)

-----------------------------------------------------------------------------
(* Actions *)

\* NavigationController::new: layout_state of the root := (0, 0), then navigate(Noop)
NewController ==
    /\ pc = "built"
    /\ LET ls == SomePoint(0, 0)
           out == navigate(root_layout, ls, Noop)
           c == controller_navigate(root_layout, NoFocus, out)
       IN /\ layout_state' = [layout_state EXCEPT ![root_layout] = ls]
          /\ result' = c.result
          /\ IF c.result.kind = "Err"
             THEN /\ pc' = "failed"
                  /\ UNCHANGED <<current_layout_ref, current_focus_id>>
             ELSE /\ pc' = "idle"
                  /\ current_layout_ref' = c.layout_ref
                  /\ current_focus_id' = c.focus_id
    /\ directive' = Noop
    /\ call' = NodeCall("new", root_layout, NoFocus)
    /\ UNCHANGED <<grid, grow_config, treeVars, chain, pending, inserted>>

\* NavigationController::navigate(dir): lock the current node and call its navigate
Navigate(dir) ==
    /\ pc = "idle"
    /\ chain' = <<Frame(current_layout_ref, "Navigate", NoFraction, NoFraction, dir,
                        NoLayout, NoLayout)>>
    /\ directive' = dir
    /\ result' = NoResult
    /\ pending' = NoPending
    /\ pc' = "run"
    /\ call' = NodeCall("navigate", current_layout_ref, NoFocus)
    /\ UNCHANGED <<grid, layout_state, grow_config, treeVars, current_layout_ref,
                   current_focus_id, inserted>>

Top == chain[Len(chain)]

\* the innermost node runs to its return or to the next lock it asks for
Run ==
    /\ pc = "run"
    /\ \E out \in {LocalRun(Top)} :
          /\ layout_state' = [layout_state EXCEPT ![Top.node] = out.ls]
          /\ pending' = out
          /\ pc' = CASE out.kind \in {"WithinLayout", "AcrossLayout", "NoNextItem", "Err"} -> "ret"
                     [] out.kind = "Panic" -> "panicked"
                     [] OTHER -> "lock"
    /\ UNCHANGED <<grid, grow_config, treeVars, current_layout_ref, current_focus_id,
                   chain, directive, result, inserted, call>>

\* the lock is free: the chain enters the child or the parent (navigate_into)
Acquire ==
    /\ pc = "lock"
    /\ RequestedLocks(pending) \cap HeldLocks = {}
    /\ chain' = Append(chain,
                   IF pending.kind = "ToChild"
                   THEN Frame(pending.layout, "NavigateToChild", pending.fx, pending.fy,
                              pending.directive, NoLayout, pending.layout)
                   ELSE Frame(pending.layout, "NavigateToParent", pending.fx, pending.fy,
                              pending.directive, Top.node, NoLayout))
    /\ pending' = NoPending
    /\ pc' = "run"
    /\ UNCHANGED <<grid, layout_state, grow_config, treeVars, current_layout_ref,
                   current_focus_id, directive, result, inserted, call>>

\* the lock is held by the chain itself: Mutex::lock never returns, it blocks for
\* ever or panics
Block ==
    /\ pc = "lock"
    /\ RequestedLocks(pending) \cap HeldLocks # {}
    /\ pc' \in {"deadlocked", "panicked"}
    /\ UNCHANGED <<grid, layout_state, grow_config, treeVars, current_layout_ref,
                   current_focus_id, chain, pending, directive, result, inserted, call>>

\* a callee returns to its caller, which translates the result and returns too
Return ==
    /\ pc = "ret"
    /\ Len(chain) > 1
    /\ pending' = Translate(pending, Top.node)
    /\ chain' = SubSeq(chain, 1, Len(chain) - 1)
    /\ UNCHANGED <<grid, layout_state, grow_config, treeVars, current_layout_ref,
                   current_focus_id, pc, directive, result, inserted, call>>

\* the current node returns to NavigationController::navigate
Finish ==
    /\ pc = "ret"
    /\ Len(chain) = 1
    /\ LET c == controller_navigate(current_layout_ref, current_focus_id, pending)
       IN /\ current_layout_ref' = c.layout_ref
          /\ current_focus_id' = c.focus_id
          /\ result' = c.result
    /\ chain' = << >>
    /\ pending' = NoPending
    /\ pc' = "idle"
    /\ UNCHANGED <<grid, layout_state, grow_config, treeVars, directive, inserted, call>>

\* insert_to_growable_grid on node n with the next focus id; only the calls on
\* growable nodes are counted, the others change nothing
Insert(n) ==
    \E r \in {insert_to_growable_grid(n, FocusIds[inserted[n] + 1])} :
       /\ inserted[n] < MaxInserts
       /\ inserted' = [inserted EXCEPT ![n] = IF grow_config[n].some THEN @ + 1 ELSE @]
       /\ grid' = [grid EXCEPT ![n] = r.grid]
       /\ grow_config' = [grow_config EXCEPT ![n] = r.grow_config]
       /\ pc' = IF r.status = "Panic" THEN "panicked" ELSE pc
       /\ result' = IF r.status = "Ok" THEN Done ELSE Failed
       /\ call' = NodeCall("insert", n, FocusIds[inserted[n] + 1])
       /\ UNCHANGED <<layout_state, treeVars, current_layout_ref, current_focus_id,
                      chain, pending, directive>>

\* NavigationController::insert_elem: insert into the current node
InsertElem ==
    /\ pc = "idle"
    /\ Insert(current_layout_ref)

\* main.rs: get_sublayout_by_id(id), then insert_to_growable_grid on that node
InsertSublayout(id) ==
    /\ pc = "idle"
    /\ get_sublayout_by_id(id) # NoLayout
    /\ Insert(get_sublayout_by_id(id))

Next ==
    \/ NewController
    \/ \E dir \in Directives : Navigate(dir)
    \/ Run
    \/ Acquire
    \/ Block
    \/ Return
    \/ Finish
    \/ InsertElem
    \/ \E id \in DOMAIN sublayouts[root_layout] : InsertSublayout(id)

Spec == Init /\ [][Next]_vars

-----------------------------------------------------------------------------
(* Properties *)

\* the occupant of the cell a layout_state addresses
ItemAt(n, ls) ==
    IF ls.some /\ Indexable(grid[n], ls.x, ls.y) THEN grid[n].grid[ls.x + 1][ls.y + 1]
                                                  ELSE NoItem

\* the layout_state of n addresses an Element of n's grid
FocusValid(n) ==
    /\ layout_state[n].some
    /\ within_bounds(grid[n], layout_state[n].x, layout_state[n].y)
    /\ ItemAt(n, layout_state[n]).kind = "Element"

\* the driver is between two calls on a constructed controller
Idle == pc = "idle"

\* this step is the return of a top-level navigate to its caller
Returns == pc = "ret" /\ pc' = "idle"

\* C1: between calls, every node's focus point is unset or addresses a cell of
\* the node's own grid that holds an Element.
C1_FocusAddressesElement ==
    Idle => \A n \in Nodes : layout_state[n].some => FocusValid(n)

\* C2: a navigate call never asks for a lock (of a node or of an occupant) that
\* its own call chain already holds.
C2_NoSelfDeadlock ==
    pc = "lock" => RequestedLocks(pending) \cap HeldLocks = {}

\* C3: in the nested layout of the tests, the new controller is on "0_alpha" in the
\* root; Down from "0_alpha" in the root returns AcrossLayout("1_alpha", L1) and
\* makes L1 the current node; Up from "1_alpha" in L1 returns
\* AcrossLayout("0_alpha", L0) and makes L0 the current node.
C3_DownIntoChildThenUp ==
    [][ (root_layout = "L0" /\ "L1" \in Nodes) =>
          /\ pc = "built" /\ pc' # "built" =>
                /\ pc' = "idle"
                /\ current_layout_ref' = "L0"
                /\ current_focus_id' = "0_alpha"
          /\ ( /\ Returns
               /\ directive = Direction("Down")
               /\ current_layout_ref = "L0"
               /\ current_focus_id = "0_alpha" ) =>
                /\ result' = AcrossLayout("1_alpha", "L1")
                /\ current_layout_ref' = "L1"
                /\ current_focus_id' = "1_alpha"
          /\ ( /\ Returns
               /\ directive = Direction("Up")
               /\ current_layout_ref = "L1"
               /\ current_focus_id = "1_alpha" ) =>
                /\ result' = AcrossLayout("0_alpha", "L0")
                /\ current_layout_ref' = "L0"
                /\ current_focus_id' = "0_alpha" ]_vars

C3_Witness ==
    /\ Idle
    /\ root_layout = "L0" /\ "L1" \in Nodes
    /\ directive = Direction("Up")
    /\ result = AcrossLayout("0_alpha", "L0")
    /\ current_layout_ref = "L0"
    /\ layout_state["L1"] = SomePoint(0, 0)

\* C4: in the layouts of the tests (with or without the nested grid), Right from
\* "0_alpha" in the root returns WithinLayout("0_beta") and puts the root's focus
\* point on "0_beta"; Right from "0_beta" returns NoNextItem and leaves the focus
\* point and the cached focus id on "0_beta".
C4_RightThenNoNextItem ==
    [][ (root_layout = "L0" /\ Returns /\ directive = Direction("Right")
            /\ current_layout_ref = "L0") =>
          /\ current_focus_id = "0_alpha" =>
                /\ result' = WithinLayout("0_beta")
                /\ current_layout_ref' = "L0"
                /\ current_focus_id' = "0_beta"
                /\ ItemAt("L0", layout_state'["L0"]) = Element("0_beta", Rc(2, 2, 0, 1))
          /\ current_focus_id = "0_beta" =>
                /\ result' = NoNextItem
                /\ current_layout_ref' = "L0"
                /\ current_focus_id' = "0_beta"
                /\ ItemAt("L0", layout_state'["L0"]) = Element("0_beta", Rc(2, 2, 0, 1)) ]_vars

C4_Witness ==
    /\ Idle
    /\ root_layout = "L0"
    /\ directive = Direction("Right")
    /\ result = NoNextItem
    /\ current_focus_id = "0_beta"
    /\ ItemAt("L0", layout_state["L0"]).id = "0_beta"

\* a step of a top-level navigate(Noop): its call, a run of it, or its return
NoopStep ==
    /\ directive' = Noop
    /\ (pc = "idle" /\ pc' = "run") \/ pc \in {"run", "lock", "ret"}

\* C5: navigate(Noop) on the controller changes no focus point, no grid and neither
\* the current node nor the cached focus id, and returns WithinLayout(cached focus
\* id) when the current node's focus is valid, an error otherwise; on any node,
\* navigate(Noop) leaves the layout_state as it is and returns WithinLayout(id of
\* the Element under it) when there is one, an error when the layout_state is
\* unset or on an empty or Sublayout cell.
C5_NoopReadsOnly ==
    /\ [][ NoopStep =>
             /\ UNCHANGED <<grid, layout_state, grow_config, current_layout_ref,
                            current_focus_id>>
             /\ Returns =>
                   result' = IF FocusValid(current_layout_ref)
                             THEN WithinLayout(current_focus_id)
                             ELSE Failed ]_vars
    /\ [](Idle =>
            \A n \in Nodes :
                LET out == navigate(n, layout_state[n], Noop)
                IN /\ out.ls = layout_state[n]
                   /\ IF FocusValid(n)
                      THEN ResultOf(out) = WithinLayout(ItemAt(n, layout_state[n]).id)
                      ELSE ResultOf(out) = Failed)

C5_Witness ==
    /\ Idle
    /\ directive = Noop
    /\ result = WithinLayout(current_focus_id)
    /\ current_layout_ref # root_layout
    /\ layout_state[current_layout_ref] # SomePoint(0, 0)
    /\ \E n \in Nodes : ItemAt(n, layout_state[n]).kind = "Sublayout"

\* C6: a top-level navigate call that has started is on its way to its return: it
\* has not come to wait for ever on a lock, nor panicked, and its chain (at most
\* one frame per node) cannot grow for ever.
C6_NavigateTerminates ==
    /\ chain # << >> => pc \notin {"deadlocked", "panicked"}
    /\ \A i, j \in 1..Len(chain) : chain[i].node = chain[j].node => i = j

\* C7: the controller hands the directive to its current node, changes nothing of
\* its own while the call runs, and on the return sets the cached focus id (and,
\* for AcrossLayout, the current node) from the result: WithinLayout(id) keeps the
\* node, AcrossLayout(id, n) makes n the current node, NoNextItem and errors leave
\* both as they are.
C7_FacadeFollowsResult ==
    [][ /\ (pc = "idle" /\ pc' = "run") =>
              /\ Len(chain') = 1
              /\ chain'[1].node = current_layout_ref
              /\ chain'[1].directive = directive'
              /\ UNCHANGED <<current_layout_ref, current_focus_id>>
        /\ (pc \in {"run", "lock", "ret"} /\ ~Returns) =>
              UNCHANGED <<current_layout_ref, current_focus_id>>
        /\ Returns =>
              /\ result' = ResultOf(pending)
              /\ CASE result'.kind = "WithinLayout" ->
                        /\ current_focus_id' = result'.id
                        /\ current_layout_ref' = current_layout_ref
                   [] result'.kind = "AcrossLayout" ->
                        /\ current_focus_id' = result'.id
                        /\ current_layout_ref' = result'.layout
                   [] result'.kind \in {"NoNextItem", "Err"} ->
                        /\ current_focus_id' = current_focus_id
                        /\ current_layout_ref' = current_layout_ref ]_vars

C7_Witness ==
    /\ Idle
    /\ result.kind = "AcrossLayout"
    /\ current_layout_ref = result.layout
    /\ current_focus_id = result.id
    /\ parent[current_layout_ref] # NoLayout
    /\ inserted[current_layout_ref] > 0

\* the Sublayout occupants of a grid
SublayoutsIn(g) ==
    {g.grid[x][y] : x \in DOMAIN g.grid, y \in 1..g.y_size} \ {NoItem}

\* the callee's result as its caller hands it on
HandedOn(callee) ==
    /\ pending.kind = "WithinLayout" =>
          ResultOf(pending') = AcrossLayout(pending.id, callee)
    /\ pending.kind \in {"AcrossLayout", "NoNextItem"} =>
          ResultOf(pending') = ResultOf(pending)
    /\ pc' = "ret"
    /\ chain' = SubSeq(chain, 1, Len(chain) - 1)

\* C8: a scan that comes to a Sublayout cell asks for that child (an occupant of
\* the scanning node's grid); once the lock is granted the child is entered with
\* NavigateToChild; and when the child answers, the node returns
\* AcrossLayout(id, child) for the child's WithinLayout(id), and the child's
\* AcrossLayout or NoNextItem as it is.
C8_ChildResultTranslated ==
    [][ /\ (pc = "run" /\ pending'.kind = "ToChild") =>
              \E item \in SublayoutsIn(grid[Top.node]) :
                  /\ item.kind = "Sublayout"
                  /\ item.id = pending'.layout
                  /\ parent[item.id] = Top.node
        /\ (pc = "lock" /\ pending.kind = "ToChild" /\ pc' = "run") =>
              /\ Len(chain') = Len(chain) + 1
              /\ chain'[Len(chain')].node = pending.layout
              /\ chain'[Len(chain')].kind = "NavigateToChild"
              /\ chain'[Len(chain')].directive = pending.directive
        /\ (pc = "ret" /\ Len(chain) > 1 /\ Top.kind = "NavigateToChild") =>
              /\ parent[Top.node] = chain[Len(chain) - 1].node
              /\ HandedOn(Top.node) ]_vars

\* the root has entered a child, the child a grandchild, and the root is about to
\* return the grandchild's answer
C8_Witness ==
    /\ pc = "ret"
    /\ Len(chain) = 1
    /\ pending.kind = "AcrossLayout"
    /\ parent[pending.layout] # NoLayout
    /\ parent[parent[pending.layout]] = chain[1].node

\* the corner of the current Element that faces the direction, else the raw point
AnchorOf(n, d) ==
    LET ls == layout_state[n]
        rect == ItemAt(n, ls).rect
    IN IF FocusValid(n)
       THEN (IF d \in {"Up", "Left"} THEN Pt(rect.x_start, rect.y_start)
                                     ELSE Pt(rect.x_end, rect.y_end))
       ELSE Pt(ls.x, ls.y)

\* the anchor of navigate(Direction(d)) on n, stepped once, is outside n's grid
LeavesGrid(n, d) ==
    \/ d = "Up" /\ AnchorOf(n, d).y = 0
    \/ d = "Left" /\ AnchorOf(n, d).x = 0
    \/ d = "Down" /\ AnchorOf(n, d).y = grid[n].y_size - 1
    \/ d = "Right" /\ AnchorOf(n, d).x = grid[n].x_size - 1

\* C9: when navigate(Direction(d)) of a node would leave the node's grid, a node
\* without a parent returns NoNextItem and a node with a parent asks for its parent
\* with (anchor / grid size per axis, the directive, its own id); once the lock is
\* granted the parent is entered with exactly that NavigateToParent bundle; and when
\* the parent answers, the node returns AcrossLayout(id, parent) for the parent's
\* WithinLayout(id), and the parent's AcrossLayout or NoNextItem as it is.
C9_ExitToParent ==
    [][ /\ ( /\ pc = "run"
             /\ Top.kind = "Navigate"
             /\ Top.directive.kind = "Direction"
             /\ LeavesGrid(Top.node, Top.directive.arg) ) =>
              IF parent[Top.node] = NoLayout
              THEN ResultOf(pending') = NoNextItem /\ pc' = "ret"
              ELSE /\ pending'.kind = "ToParent"
                   /\ pending'.layout = parent[Top.node]
                   /\ pending'.fx = <<AnchorOf(Top.node, Top.directive.arg).x,
                                      grid[Top.node].x_size>>
                   /\ pending'.fy = <<AnchorOf(Top.node, Top.directive.arg).y,
                                      grid[Top.node].y_size>>
                   /\ pending'.directive = Top.directive
        /\ (pc = "run" /\ pending'.kind = "ToParent") =>
              /\ pending'.layout = parent[Top.node]
              /\ pending'.layout # NoLayout
        /\ (pc = "lock" /\ pending.kind = "ToParent" /\ pc' = "run") =>
              chain' = Append(chain, Frame(parent[Top.node], "NavigateToParent", pending.fx,
                                           pending.fy, pending.directive, Top.node, NoLayout))
        /\ (pc = "ret" /\ Len(chain) > 1 /\ Top.kind = "NavigateToParent") =>
              /\ Top.node = parent[chain[Len(chain) - 1].node]
              /\ HandedOn(Top.node) ]_vars

\* a grandchild has left for its parent, the parent for the root, and the grandchild
\* is about to return the root's answer
C9_Witness ==
    /\ pc = "ret"
    /\ Len(chain) = 1
    /\ pending.kind = "AcrossLayout"
    /\ parent[chain[1].node] # NoLayout
    /\ pending.layout = parent[parent[chain[1].node]]

\* the Elements a grid holds
ElementsIn(g) ==
    {i \in {g.grid[x][y] : x \in DOMAIN g.grid, y \in 1..g.y_size} : i.kind = "Element"}

Disjoint(r1, r2) ==
    \/ r1.x_end < r2.x_start \/ r2.x_end < r1.x_start
    \/ r1.y_end < r2.y_start \/ r2.y_end < r1.y_start

\* C10: every insert into a growable node succeeds and adds one Element, so that
\* after N inserts the node holds N Elements with pairwise disjoint rects, and
\* every insert moves the grow cursor forward along the growth axis.
C10_EveryInsertAddsARect ==
    [][ \A n \in Nodes :
          inserted'[n] = inserted[n] + 1 =>
             /\ result' = Done
             /\ Cardinality(ElementsIn(grid'[n])) = inserted'[n]
             /\ \A e1, e2 \in ElementsIn(grid'[n]) :
                   e1 # e2 => Disjoint(e1.rect, e2.rect)
             /\ IF grow_config[n].grow_direction = "GrowX"
                THEN grow_config'[n].current_grow_point.x > grow_config[n].current_grow_point.x
                ELSE grow_config'[n].current_grow_point.y > grow_config[n].current_grow_point.y
      ]_vars

\* the grow cursor of n lies outside n's grid: the row (column) is full
BandFull(n) ==
    /\ grow_config[n].some
    /\ ~within_bounds_point(grid[n], grow_config[n].current_grow_point)

\* the start of the next row (GrowX) or column (GrowY) behind the cursor of n
NextBand(n) ==
    IF grow_config[n].grow_direction = "GrowX"
    THEN Pt(0, grow_config[n].current_grow_point.y + grow_config[n].item_y)
    ELSE Pt(grow_config[n].current_grow_point.x + grow_config[n].item_x, 0)

\* this step is an insert call on the growable node n
InsertOn(n) == inserted'[n] = inserted[n] + 1

\* C11: an insert that finds the grow cursor outside the grid wraps: it succeeds
\* and the new Element starts at the start of the next row (GrowX) or column
\* (GrowY), one item size further along the other axis, and the cells of the
\* row or column just filled keep their occupants.
C11_InsertWraps ==
    [][ \A n \in Nodes :
          (InsertOn(n) /\ BandFull(n)) =>
             /\ result' = Done
             /\ \E e \in ElementsIn(grid'[n]) :
                   /\ e.id = FocusIds[inserted'[n]]
                   /\ top_left(e.rect) = NextBand(n)
                   /\ at(grid'[n], NextBand(n).x, NextBand(n).y).item = e
             /\ ElementsIn(grid[n]) \subseteq ElementsIn(grid'[n])
      ]_vars

\* the lengths of the Vecs of a grid: <<number of columns, set of column lengths>>
VecSizes(g) == <<Len(g.grid), {Len(g.grid[x]) : x \in DOMAIN g.grid}>>

\* C12: the grid of a growable node is expanded exactly when an insert finds the
\* band full and the next band outside the grid: it then grows by one item size
\* along the other axis (y by item_y for GrowX, x by item_x for GrowY) with the
\* old cells kept; on every other insert the grid keeps its size.
C12_ExpandsOncePerFullBand ==
    [][ \A n \in Nodes :
          InsertOn(n) =>
             LET g == grid[n]
                 gc == grow_config[n]
                 nx == IF gc.grow_direction = "GrowY" THEN g.x_size + gc.item_x ELSE g.x_size
                 ny == IF gc.grow_direction = "GrowX" THEN g.y_size + gc.item_y ELSE g.y_size
             IN IF BandFull(n) /\ ~within_bounds_point(g, NextBand(n))
                THEN /\ VecSizes(grid'[n]) = <<nx, {ny}>>
                     /\ \A x \in 1..g.x_size, y \in 1..g.y_size :
                           g.grid[x][y] # NoItem => grid'[n].grid[x][y] = g.grid[x][y]
                ELSE VecSizes(grid'[n]) = VecSizes(g)
      ]_vars

\* C13: an insert on a node without a grow config fails and changes neither
\* that node's grid, focus point and cursor nor any other node, nor the
\* controller's current node and cached focus id; insert_elem is such an insert
\* on the current node.
C13_InsertNeedsGrowConfig ==
    [][ (pc = "idle" /\ call'.op = "insert" /\ ~grow_config[call'.node].some) =>
           /\ result' = Failed
           /\ pc' = "idle"
           /\ UNCHANGED <<grid, layout_state, grow_config, current_layout_ref,
                          current_focus_id, treeVars>> ]_vars

\* insert_elem has just failed on a current node that has no grow config, though
\* the cell at that node's cursor is free
C13_Witness ==
    /\ pc = "idle"
    /\ call.op = "insert"
    /\ call.node = current_layout_ref
    /\ ~grow_config[call.node].some
    /\ result = Failed
    /\ at(grid[call.node], 0, 0).item = NoItem

-----------------------------------------------------------------------------
(* The builder on its own: a root builder is configured call by call, on the *)
(* root or through the handle of a sub-builder, and then built.             *)

\* what the calls of BuilderSpec are made with
BuilderRects == {Rc(0, 0, 0, 0), Rc(1, 1, 0, 0), Rc(0, 1, 1, 1)}

ElementIds == {"e1"}

SubIds == {"B1", "B2"}

GrowDirections == {"GrowX", "GrowY"}

RECURSIVE BuilderIds(_)
\* the layout ids of a builder and of the sub-builders below it
BuilderIds(b) ==
    {b.layout_id} \cup
    UNION {BuilderIds(b.sublayouts[i][3]) : i \in DOMAIN b.sublayouts}

RECURSIVE BuilderOf(_, _)
\* the builder with the given layout id in the tree of b
BuilderOf(b, id) ==
    IF b.layout_id = id THEN b
    ELSE LET i == CHOOSE i \in DOMAIN b.sublayouts : id \in BuilderIds(b.sublayouts[i][3])
         IN BuilderOf(b.sublayouts[i][3], id)

RECURSIVE WithBuilder(_, _, _)
\* the tree of b with the builder of the given layout id replaced by nb
WithBuilder(b, id, nb) ==
    IF b.layout_id = id THEN nb
    ELSE [b EXCEPT !.sublayouts =
            [i \in DOMAIN b.sublayouts |->
               <<b.sublayouts[i][1], b.sublayouts[i][2],
                 IF id \in BuilderIds(b.sublayouts[i][3])
                 THEN WithBuilder(b.sublayouts[i][3], id, nb)
                 ELSE b.sublayouts[i][3]>>]]

BuilderInit ==
    /\ builder = LayoutGridBuilder_new(2, 2, "B0")
    /\ grid = << >>
    /\ layout_state = << >>
    /\ special_handler = << >>
    /\ parent = << >>
    /\ sublayouts = << >>
    /\ grow_config = << >>
    /\ inserted = << >>
    /\ root_layout = NoLayout
    /\ current_layout_ref = NoLayout
    /\ current_focus_id = NoFocus
    /\ pc = "building"
    /\ chain = << >>
    /\ pending = NoPending
    /\ directive = Noop
    /\ result = NoResult
    /\ call = NoCall

builtVars == <<grid, layout_state, special_handler, parent, sublayouts, grow_config,
               inserted, root_layout>>

\* a call that leaves the builder being configured
Configure(nb, ok, c) ==
    /\ pc = "building"
    /\ builder' = nb
    /\ result' = IF ok THEN Done ELSE Failed
    /\ call' = c
    /\ UNCHANGED <<builtVars, current_layout_ref, current_focus_id, pc, chain, pending,
                   directive>>

\* add_element(rect, focus_id) on the builder t; focus ids are used once per builder
AddElement(t, rect, focus_id) ==
    /\ t \in BuilderIds(builder)
    /\ \A i \in DOMAIN BuilderOf(builder, t).rects : BuilderOf(builder, t).rects[i][2] # focus_id
    /\ \E r \in {add_element(BuilderOf(builder, t), rect, focus_id)} :
          Configure(WithBuilder(builder, t, r.builder), r.ok,
                    Call("add_element", t, rect, focus_id, 0, 0))

\* set_growable(size_x, size_y, dir) on the builder t
SetGrowable(t, dir) ==
    /\ t \in BuilderIds(builder)
    /\ \E r \in {set_growable(BuilderOf(builder, t), 1, 1, dir)} :
          Configure(WithBuilder(builder, t, r.builder), r.ok,
                    Call("set_growable", t, Rc(0, 0, 0, 0), dir, 1, 1))

\* with_sublayout(rect, id, 2, 2) on the builder t; layout ids are used once
WithSublayout(t, rect, id) ==
    /\ t \in BuilderIds(builder)
    /\ id \notin BuilderIds(builder)
    /\ Configure(WithBuilder(builder, t, with_sublayout(BuilderOf(builder, t), rect, id, 2, 2)),
                 TRUE, Call("with_sublayout", t, rect, id, 2, 2))

\* build() on the builder t: the tree, or a failure
Build(t) ==
    /\ pc = "building"
    /\ t \in BuilderIds(builder)
    /\ \E built \in {build(BuilderOf(builder, t))} :
          IF built.ok
          THEN /\ grid' = [n \in DOMAIN built.nodes |-> built.nodes[n].grid]
               /\ layout_state' = [n \in DOMAIN built.nodes |-> built.nodes[n].layout_state]
               /\ special_handler' = [n \in DOMAIN built.nodes |-> built.nodes[n].special_handler]
               /\ parent' = [n \in DOMAIN built.nodes |-> built.nodes[n].parent]
               /\ sublayouts' = [n \in DOMAIN built.nodes |-> built.nodes[n].sublayouts]
               /\ grow_config' = [n \in DOMAIN built.nodes |-> built.nodes[n].grow_config]
               /\ inserted' = [n \in DOMAIN built.nodes |-> 0]
               /\ root_layout' = t
               /\ pc' = "built"
               /\ result' = Done
          ELSE /\ UNCHANGED builtVars
               /\ pc' = "failed"
               /\ result' = Failed
    /\ call' = NodeCall("build", t, NoFocus)
    /\ UNCHANGED <<builder, current_layout_ref, current_focus_id, chain, pending, directive>>

BuilderNext ==
    \/ \E t \in {"B0"} \cup SubIds, rect \in BuilderRects, id \in ElementIds :
          AddElement(t, rect, id)
    \/ \E t \in {"B0"} \cup SubIds, dir \in GrowDirections : SetGrowable(t, dir)
    \/ \E t \in {"B0"} \cup SubIds, rect \in BuilderRects, id \in SubIds :
          WithSublayout(t, rect, id)
    \/ \E t \in {"B0"} \cup SubIds : Build(t)

BuilderSpec == BuilderInit /\ [][BuilderNext]_vars

\* C14: on one builder, add_element after set_growable fails and set_growable
\* after an add_element fails, and the failing call leaves the builder (its
\* elements, its grow configuration, and every other builder of the tree) as it was.
C14_ElementsXorGrowable ==
    [][ /\ ( /\ pc = "building"
             /\ call'.op = "add_element"
             /\ BuilderOf(builder, call'.node).growable_config.some ) =>
               result' = Failed /\ builder' = builder
        /\ ( /\ pc = "building"
             /\ call'.op = "set_growable"
             /\ BuilderOf(builder, call'.node).rects # << >> ) =>
               result' = Failed /\ builder' = builder ]_vars

\* set_growable has just failed on a builder that holds an element, while another
\* builder of the tree holds a grow configuration and no element
C14_Witness ==
    /\ pc = "building"
    /\ call.op = "set_growable"
    /\ result = Failed
    /\ BuilderOf(builder, call.node).rects # << >>
    /\ ~BuilderOf(builder, call.node).growable_config.some
    /\ \E t \in BuilderIds(builder) :
          /\ BuilderOf(builder, t).growable_config.some
          /\ BuilderOf(builder, t).rects = << >>

RECURSIVE LinkedBelow(_)
\* every sub-builder attached to b, at any depth, is a node whose parent is the node
\* it was attached to, whose rect in that node's grid holds one Sublayout occupant
\* of the child, and which that node's child index names by its id
LinkedBelow(b) ==
    \A i \in DOMAIN b.sublayouts :
       LET rect == b.sublayouts[i][1]
           child_id == b.sublayouts[i][2]
           child == b.sublayouts[i][3].layout_id
           occupant == Sublayout(child, rect)
       IN /\ child \in Nodes
          /\ parent[child] = b.layout_id
          /\ \A c \in RectCells(rect) :
                at(grid[b.layout_id], c[1], c[2]) = [ok |-> TRUE, item |-> occupant]
          /\ child_id \in DOMAIN sublayouts[b.layout_id]
          /\ sublayouts[b.layout_id][child_id] = occupant
          /\ LinkedBelow(b.sublayouts[i][3])

\* C15: after a successful build the root has no parent and every sub-builder
\* attached with with_sublayout(rect, child_id, ..) is linked: the child's parent is
\* the node it was attached to, every cell of rect in the parent's grid holds the
\* same Sublayout occupant of the child, and the parent's child index maps child_id
\* to that occupant.
C15_BuiltTreeLinked ==
    pc = "built" =>
       /\ root_layout = builder.layout_id
       /\ parent[root_layout] = NoLayout
       /\ Nodes = BuilderIds(builder)
       /\ LinkedBelow(builder)

\* a tree of three levels has been built in which root and child hold an element too
C15_Witness ==
    /\ pc = "built"
    /\ \E n \in Nodes :
          /\ parent[n] # NoLayout
          /\ parent[parent[n]] = root_layout
          /\ parent[n] # root_layout
          /\ ElementsIn(grid[root_layout]) # {}
          /\ ElementsIn(grid[parent[n]]) # {}

-----------------------------------------------------------------------------
(* Grid2D on its own: one grid, made by Grid2D::new, on which fill and      *)
(* expand are called with any arguments.                                   *)

\* the largest size Grid2D::new and expand are called with; rect coordinates go
\* up to it, one beyond the last index of such a grid
MaxGrid == 2

\* the one grid of GridSpec
G == "G"

GridRects ==
    [x_start : 0..MaxGrid, x_end : 0..MaxGrid, y_start : 0..MaxGrid, y_end : 0..MaxGrid]

\* the rects Rect::new accepts among them
WellFormed(rect) == rect.x_start <= rect.x_end /\ rect.y_start <= rect.y_end

GridInit ==
    /\ \E sx \in 1..MaxGrid, sy \in 1..MaxGrid : grid = (G :> Grid2D_new(sx, sy))
    /\ layout_state = << >>
    /\ special_handler = << >>
    /\ parent = << >>
    /\ sublayouts = << >>
    /\ grow_config = << >>
    /\ inserted = << >>
    /\ root_layout = NoLayout
    /\ builder = LayoutGridBuilder_new(1, 1, G)
    /\ current_layout_ref = NoLayout
    /\ current_focus_id = NoFocus
    /\ pc = "grid"
    /\ chain = << >>
    /\ pending = NoPending
    /\ directive = Noop
    /\ result = NoResult
    /\ call = NoCall

\* fill(rect, Element(focus_id, rect)) on the grid
GridFill(rect, focus_id) ==
    /\ pc = "grid"
    /\ WellFormed(rect)
    /\ \E f \in {fill(grid[G], rect, Element(focus_id, rect))} :
          /\ grid' = (G :> f.grid)
          /\ result' = IF f.status = "Ok" THEN Done ELSE Failed
          /\ pc' = IF f.status = "Panic" THEN "panicked" ELSE pc
    /\ call' = Call("fill", G, rect, focus_id, 0, 0)
    /\ UNCHANGED <<layout_state, grow_config, inserted, treeVars, current_layout_ref,
                   current_focus_id, chain, pending, directive>>

\* expand(new_x_size, new_y_size) on the grid as Grid2D::new and fill left it
GridExpand(new_x_size, new_y_size) ==
    /\ pc = "grid"
    /\ VecSizes(grid[G]) = <<grid[G].x_size, {grid[G].y_size}>>
    /\ \E e \in {expand(grid[G], new_x_size, new_y_size)} :
          /\ grid' = (G :> e.grid)
          /\ result' = IF e.ok THEN Done ELSE Failed
    /\ call' = Call("expand", G, Rc(0, 0, 0, 0), NoFocus, new_x_size, new_y_size)
    /\ UNCHANGED <<layout_state, grow_config, inserted, treeVars, current_layout_ref,
                   current_focus_id, pc, chain, pending, directive>>

GridNext ==
    \/ \E rect \in GridRects : GridFill(rect, "g1")
    \/ \E nx \in 0..MaxGrid, ny \in 0..MaxGrid : GridExpand(nx, ny)

GridSpec == GridInit /\ [][GridNext]_vars

\* this step is a call of fill with the rect call'.rect
FillStep == pc = "grid" /\ call'.op = "fill"

\* the cell (x, y) of the Vecs of g holds an occupant
Occupied(g, x, y) == Indexable(g, x, y) /\ g.grid[x + 1][y + 1] # NoItem

\* C16: a fill whose rect contains an occupied cell fails (returns a failure) and
\* leaves every cell of the grid as it was.
C16_FillNeverOverwrites ==
    [][ ( /\ FillStep
          /\ \E c \in RectCells(call'.rect) : Occupied(grid[G], c[1], c[2]) ) =>
            /\ result' = Failed
            /\ pc' = "grid"
            /\ grid' = grid ]_vars

\* C17: a fill whose rect is not inside the grid (x_end >= x_size or
\* y_end >= y_size, the end index equal to the size included) returns a failure
\* and leaves the grid as it was.
C17_FillRejectsOutOfBounds ==
    [][ ( /\ FillStep
          /\ \/ call'.rect.x_end >= grid[G].x_size
             \/ call'.rect.y_end >= grid[G].y_size ) =>
            /\ result' = Failed
            /\ pc' = "grid"
            /\ grid' = grid ]_vars

\* C18: after a successful fill(rect, occupant) reading any cell of rect returns
\* that occupant, and every cell outside rect holds what it held before.
C18_OccupantIsRectWide ==
    [][ (FillStep /\ result' = Done) =>
            /\ \A c \in RectCells(call'.rect) :
                  at(grid'[G], c[1], c[2]) =
                     [ok |-> TRUE, item |-> Element(call'.id, call'.rect)]
            /\ VecSizes(grid'[G]) = VecSizes(grid[G])
            /\ \A x \in DOMAIN grid[G].grid : \A y \in DOMAIN grid[G].grid[x] :
                  <<x - 1, y - 1>> \notin RectCells(call'.rect) =>
                     grid'[G].grid[x][y] = grid[G].grid[x][y] ]_vars

\* C19: expand(nx, ny) fails when nx < x_size or ny < y_size; after a successful
\* expand the grid's size is (nx, ny), every old cell holds what it held, and
\* every new cell is within bounds, readable with at, and empty.
C19_ExpandGrowsGrid ==
    [][ (pc = "grid" /\ call'.op = "expand") =>
            LET g == grid[G]
                h == grid'[G]
            IN IF call'.x < g.x_size \/ call'.y < g.y_size
               THEN result' = Failed /\ h = g
               ELSE /\ result' = Done
                    /\ h.x_size = call'.x
                    /\ h.y_size = call'.y
                    /\ \A x \in DOMAIN g.grid : \A y \in DOMAIN g.grid[x] :
                          Indexable(h, x - 1, y - 1) /\ h.grid[x][y] = g.grid[x][y]
                    /\ \A x \in 0..(call'.x - 1), y \in 0..(call'.y - 1) :
                          ~Indexable(g, x, y) =>
                             /\ within_bounds(h, x, y)
                             /\ at(h, x, y) = [ok |-> TRUE, item |-> NoItem] ]_vars

\* C20: NavigationController::new sets the root's focus point to (0, 0); it
\* succeeds exactly when root cell (0, 0) holds an Element, and then the current
\* node is the root and the cached focus id is that Element's id; when the cell is
\* empty or holds a Sublayout it fails.
C20_ConstructionNeedsElementAtOrigin ==
    [][ pc = "built" =>
          LET origin == at(grid[root_layout], 0, 0).item
          IN /\ layout_state'[root_layout] = SomePoint(0, 0)
             /\ \A n \in Nodes \ {root_layout} : layout_state'[n] = layout_state[n]
             /\ pc' \in {"idle", "failed"}
             /\ pc' = "idle" <=> origin.kind = "Element"
             /\ pc' = "idle" =>
                   /\ current_layout_ref' = root_layout
                   /\ current_focus_id' = origin.id
                   /\ result' = WithinLayout(origin.id)
             /\ origin.kind \in {"None", "Sublayout"} =>
                   /\ pc' = "failed"
                   /\ result' = Failed ]_vars

\* a controller has just been constructed on a root whose cell (0, 0) holds an
\* Element, and the root has a sublayout
C20_Witness ==
    /\ pc = "idle"
    /\ call.op = "new"
    /\ at(grid[root_layout], 0, 0).item.kind = "Element"
    /\ current_focus_id = at(grid[root_layout], 0, 0).item.id
    /\ current_layout_ref = root_layout
    /\ DOMAIN sublayouts[root_layout] # {}

-----------------------------------------------------------------------------
(* The directional scan of navigate, cell by cell *)

\* the landing point of a navigate_into frame in the entered node's grid
Landing(f) ==
    IF f.kind = "NavigateToChild"
    THEN EntryLanding(grid[f.node], f.fx, f.fy)
    ELSE ExitLanding(sublayouts[f.node][f.layout_id].rect, f.fx, f.fy)

\* the layout_state from which frame f runs navigate(directive): the node's own for
\* a navigate frame, the landing point for a navigate_into frame whose landing
\* cell is empty; NoPoint when the frame does not come to navigate(directive)
ScanPoint(f) ==
    IF f.kind = "Navigate" THEN layout_state[f.node]
    ELSE The({IF within_bounds(grid[f.node], lp.x, lp.y)
                 /\ at(grid[f.node], lp.x, lp.y).item = NoItem
              THEN SomePoint(lp.x, lp.y)
              ELSE NoPoint : lp \in {Landing(f)}})

\* the innermost frame is about to run the scan of navigate(Direction(d))
Scanning ==
    /\ pc = "run"
    /\ Top.directive.kind = "Direction"
    /\ IF Top.kind = "Navigate" THEN layout_state[Top.node].some
       ELSE \E lp \in {Landing(Top)} :
               /\ within_bounds(grid[Top.node], lp.x, lp.y)
               /\ at(grid[Top.node], lp.x, lp.y).item = NoItem

\* the point the scan of navigate(Direction(d)) starts from when the layout_state
\* is ls: the corner of the Element under ls that faces d, else ls itself
ScanAnchor(n, ls, d) ==
    LET item == at(grid[n], ls.x, ls.y).item
    IN IF item.kind = "Element"
       THEN (IF d \in {"Up", "Left"} THEN Pt(item.rect.x_start, item.rect.y_start)
                                     ELSE Pt(item.rect.x_end, item.rect.y_end))
       ELSE Pt(ls.x, ls.y)

\* the k-th cell of the primary line
LineCell(n, ls, d, k) ==
    LET a == ScanAnchor(n, ls, d)
    IN Pt(a.x + k * as_dir_vector(d)[1], a.y + k * as_dir_vector(d)[2])

\* the occupant of the cell at point p of n's grid (NoItem outside the grid)
CellAt(n, p) == at(grid[n], p.x, p.y).item

\* the number of steps to the first non-empty cell of the primary line, 0 if the
\* line is empty
FirstHit(n, ls, d) ==
    LET hits == {k \in 1..(grid[n].x_size + grid[n].y_size) :
                    CellAt(n, LineCell(n, ls, d, k)) # NoItem}
    IN IF hits = {} THEN 0 ELSE CHOOSE k \in hits : \A j \in hits : k <= j

\* C21: the primary scan is decided by the first non-empty cell of the line from
\* the anchor along d.  An Element there becomes the focus point and the result is
\* WithinLayout of its id, whatever lies farther along the line; a Sublayout there
\* is entered with the directive and the focus point stays, and when the child
\* answers, its result (NoNextItem too) is handed on with no layout_state changed,
\* that is with no further cell scanned and no side scan.
C21_FirstCellDecides ==
    [][ /\ Scanning =>
              \E n \in {Top.node} : \E ls \in {ScanPoint(Top)} :
              \E d \in {Top.directive.arg} : \E k \in {FirstHit(n, ls, d)} :
                 k > 0 =>
                    \E p \in {LineCell(n, ls, d, k)} : \E item \in {CellAt(n, p)} :
                       IF item.kind = "Element"
                       THEN /\ ResultOf(pending') = WithinLayout(item.id)
                            /\ layout_state'[n] = SomePoint(p.x, p.y)
                            /\ pc' = "ret"
                       ELSE /\ pending'.kind = "ToChild"
                            /\ pending'.layout = item.id
                            /\ pending'.directive = Top.directive
                            /\ layout_state'[n] = ls
                            /\ pc' = "lock"
        /\ (pc = "ret" /\ Len(chain) > 1 /\ Top.kind = "NavigateToChild") =>
              /\ HandedOn(Top.node)
              /\ layout_state' = layout_state ]_vars

\* a navigate has come to a Sublayout as the first non-empty cell of its line and
\* asks for the child, and an Element lies farther along the same line
C21_Witness ==
    /\ pc = "lock"
    /\ Top.kind = "Navigate"
    /\ pending.kind = "ToChild"
    /\ Top.directive.kind = "Direction"
    /\ \E k \in 1..(grid[Top.node].x_size + grid[Top.node].y_size) :
          /\ k > FirstHit(Top.node, layout_state[Top.node], Top.directive.arg)
          /\ CellAt(Top.node, LineCell(Top.node, layout_state[Top.node],
                                       Top.directive.arg, k)).kind = "Element"

\* point p lies ahead of point a in direction d
Ahead(a, p, d) ==
    CASE d = "Up" -> p.y < a.y
      [] d = "Down" -> p.y > a.y
      [] d = "Left" -> p.x < a.x
      [] d = "Right" -> p.x > a.x

\* C22: the scan of navigate(Direction(d)) starts from the anchor: the top-left
\* corner of the current Element's rect for Up and Left, its bottom-right corner
\* for Down and Right, and the raw focus point when that point addresses no
\* Element.  The anchor shows in what the scan does: when the anchor stepped once
\* is outside the grid the node leaves with the anchor's coordinates (NoNextItem
\* on the root), when the cell one step from the anchor is occupied that cell
\* decides, and an Element the scan moves to always lies ahead of the anchor.
C22_ScanStartsAtAnchor ==
    [][ Scanning =>
           \E n \in {Top.node} : \E ls \in {ScanPoint(Top)} : \E d \in {Top.directive.arg} :
           \E item \in {CellAt(n, ls)} :
           \E a \in {IF item.kind = "Element"
                      THEN (IF d \in {"Up", "Left"}
                            THEN Pt(item.rect.x_start, item.rect.y_start)
                            ELSE Pt(item.rect.x_end, item.rect.y_end))
                      ELSE Pt(ls.x, ls.y)} :
           \E next \in {Pt(a.x + as_dir_vector(d)[1], a.y + as_dir_vector(d)[2])} :
              /\ ~within_bounds(grid[n], next.x, next.y) =>
                    IF parent[n] = NoLayout
                    THEN ResultOf(pending') = NoNextItem
                    ELSE /\ pending'.kind = "ToParent"
                         /\ pending'.fx[1] = a.x
                         /\ pending'.fy[1] = a.y
              /\ CellAt(n, next).kind = "Element" =>
                    /\ ResultOf(pending') = WithinLayout(CellAt(n, next).id)
                    /\ layout_state'[n] = SomePoint(next.x, next.y)
              /\ CellAt(n, next).kind = "Sublayout" =>
                    /\ pending'.kind = "ToChild"
                    /\ pending'.layout = CellAt(n, next).id
              /\ pending'.kind = "WithinLayout" =>
                    Ahead(a, layout_state'[n], d) ]_vars

\* a node entered from its child has landed on an empty cell at the edge of its
\* grid and leaves for its own parent with the coordinates of that cell
C22_Witness ==
    /\ pc = "lock"
    /\ Top.kind = "NavigateToParent"
    /\ CellAt(Top.node, Landing(Top)) = NoItem
    /\ pending.kind = "ToParent"
    /\ pending.fx[1] = Landing(Top).x
    /\ pending.fy[1] = Landing(Top).y

\* the anchor of the scan from ls, stepped once in direction d, is outside n's grid
AtEdge(n, ls, d) ==
    ~within_bounds(grid[n], LineCell(n, ls, d, 1).x, LineCell(n, ls, d, 1).y)

\* C23: when the anchor stepped once in d is outside the grid, the node scans
\* nothing: on the root the result is NoNextItem, on a node with a parent the
\* parent is asked for, in both cases with the node's focus point left where it
\* was, whatever other Elements the grid holds; and what the parent answers is
\* handed on with no layout_state changed.
C23_EdgeLeavesWithoutScan ==
    [][ /\ Scanning =>
              \E n \in {Top.node} : \E ls \in {ScanPoint(Top)} :
                 AtEdge(n, ls, Top.directive.arg) =>
                    /\ layout_state'[n] = ls
                    /\ IF parent[n] = NoLayout
                       THEN ResultOf(pending') = NoNextItem /\ pc' = "ret"
                       ELSE /\ pending'.kind = "ToParent"
                            /\ pending'.layout = parent[n]
                            /\ pending'.directive = Top.directive
                            /\ pc' = "lock"
        /\ (pc = "ret" /\ Len(chain) > 1 /\ Top.kind = "NavigateToParent") =>
              /\ HandedOn(Top.node)
              /\ layout_state' = layout_state ]_vars

\* a node that holds more than one Element was at its edge and has left for its
\* parent, which has answered
C23_Witness ==
    /\ pc = "ret"
    /\ Len(chain) = 2
    /\ Top.kind = "NavigateToParent"
    /\ chain[1].directive.kind = "Direction"
    /\ AtEdge(chain[1].node, layout_state[chain[1].node], chain[1].directive.arg)
    /\ Cardinality(ElementsIn(grid[chain[1].node])) > 1

\* the two perpendicular sides of a direction as unit vectors: the negative one
\* (Left for Up and Down, Up for Left and Right) is side 1, the positive one side 2
SideVector(d, side) ==
    IF d \in {"Up", "Down"} THEN (IF side = 1 THEN <<-1, 0>> ELSE <<1, 0>>)
                            ELSE (IF side = 1 THEN <<0, -1>> ELSE <<0, 1>>)

\* the j-th cell beside the k-th cell of the primary line, on the given side
SideCell(n, ls, d, k, side, j) ==
    LET c == LineCell(n, ls, d, k)
    IN Pt(c.x + j * SideVector(d, side)[1], c.y + j * SideVector(d, side)[2])

\* more steps than any line of n's grid has cells
Steps(n) == 1..(grid[n].x_size + grid[n].y_size)

\* the (offset, side, distance) triples of the Elements a side probe can come to:
\* every nearer cell of the probe is empty
VisibleBeside(n, ls, d) ==
    {t \in Steps(n) \X {1, 2} \X Steps(n) :
        /\ CellAt(n, SideCell(n, ls, d, t[1], t[2], t[3])).kind = "Element"
        /\ \A i \in 1..(t[3] - 1) : CellAt(n, SideCell(n, ls, d, t[1], t[2], i)) = NoItem}

\* the order of the side scan: offset, then side, then distance
ProbedBefore(t, u) ==
    \/ t[1] < u[1]
    \/ t[1] = u[1] /\ t[2] < u[2]
    \/ t[1] = u[1] /\ t[2] = u[2] /\ t[3] < u[3]

\* the scan from ls in direction d comes to its side scan: the anchor is not at the
\* edge and the primary line is empty
SideScanRuns(n, ls, d) == ~AtEdge(n, ls, d) /\ FirstHit(n, ls, d) = 0

\* C24: the side scan never enters a nested grid.  Its result is WithinLayout of
\* an Element of the node's own grid that a side probe comes to over empty cells
\* only (a Sublayout cell ends the probe of its side at that offset, so nothing
\* behind it is found), with the focus point on that Element; when no probe comes
\* to an Element the result is NoNextItem and the focus point stays.
C24_SideScanStaysInNode ==
    [][ Scanning =>
           \E n \in {Top.node} : \E ls \in {ScanPoint(Top)} : \E d \in {Top.directive.arg} :
              SideScanRuns(n, ls, d) =>
                 \E vis \in {VisibleBeside(n, ls, d)} :
                    /\ pending'.kind # "ToChild"
                    /\ IF vis = {}
                       THEN ResultOf(pending') = NoNextItem /\ layout_state'[n] = ls
                       ELSE \E t \in vis : \E p \in {SideCell(n, ls, d, t[1], t[2], t[3])} :
                               /\ ResultOf(pending') = WithinLayout(CellAt(n, p).id)
                               /\ layout_state'[n] = SomePoint(p.x, p.y) ]_vars

\* the layout_state the navigate in progress started from: a point of the Element
\* the facade still caches
FocusStart(n) ==
    LET own == {e \in ElementsIn(grid[n]) : e.id = current_focus_id}
    IN IF own = {} THEN NoPoint
       ELSE The({SomePoint(e.rect.x_start, e.rect.y_start) : e \in {CHOOSE e \in own : TRUE}})

\* a navigate of the current node has come to its side scan and found an Element,
\* and one of its probes has stopped at a Sublayout cell with an Element behind it
C24_Witness ==
    /\ pc = "ret"
    /\ Len(chain) = 1
    /\ directive.kind = "Direction"
    /\ pending.kind = "WithinLayout"
    /\ \E n \in {Top.node} : \E ls \in {FocusStart(Top.node)} :
          /\ ls.some
          /\ SideScanRuns(n, ls, directive.arg)
          /\ \E k \in Steps(n) : \E side \in {1, 2} : \E j \in Steps(n) :
                /\ CellAt(n, SideCell(n, ls, directive.arg, k, side, j)).kind = "Sublayout"
                /\ \A i \in 1..(j - 1) :
                      CellAt(n, SideCell(n, ls, directive.arg, k, side, i)) = NoItem
                /\ \E j2 \in Steps(n) :
                      /\ j2 > j
                      /\ CellAt(n, SideCell(n, ls, directive.arg, k, side, j2)).kind = "Element"

\* C25: the side scan takes the offsets of the primary line nearest first, at each
\* offset the whole negative side (Left for Up and Down, Up for Left and Right)
\* before the positive side, and on each side the cells nearest first: its result
\* is the first Element in that order, also when an Element of the positive side
\* is nearer to the line.
C25_SideScanOrder ==
    [][ Scanning =>
           \E n \in {Top.node} : \E ls \in {ScanPoint(Top)} : \E d \in {Top.directive.arg} :
              SideScanRuns(n, ls, d) =>
                 \E vis \in {VisibleBeside(n, ls, d)} :
                    \A t \in vis :
                       (\A u \in vis : u = t \/ ProbedBefore(t, u)) =>
                          \E p \in {SideCell(n, ls, d, t[1], t[2], t[3])} :
                             /\ ResultOf(pending') = WithinLayout(CellAt(n, p).id)
                             /\ layout_state'[n] = SomePoint(p.x, p.y) ]_vars

\* a side scan has returned an Element of the negative side although an Element
\* of the positive side, at the same offset, is nearer to the primary line
C25_Witness ==
    /\ pc = "ret"
    /\ Len(chain) = 1
    /\ directive.kind = "Direction"
    /\ pending.kind = "WithinLayout"
    /\ \E n \in {Top.node} : \E ls \in {FocusStart(Top.node)} :
          /\ ls.some
          /\ SideScanRuns(n, ls, directive.arg)
          /\ \E vis \in {VisibleBeside(n, ls, directive.arg)} :
                \E t \in vis : \E u \in vis :
                   /\ t[1] = u[1] /\ t[2] = 1 /\ u[2] = 2 /\ u[3] < t[3]
                   /\ layout_state[n] = SomePoint(SideCell(n, ls, directive.arg, t[1], 1, t[3]).x,
                                                  SideCell(n, ls, directive.arg, t[1], 1, t[3]).y)

\* C26: on a child's exit the parent lands, per axis, at the extent of the child's
\* Sublayout rect times the exit fraction (anchor coordinate over the child's grid
\* size), offset by the rect's origin, and sets its focus point there.  So when
\* the parent's run moves the focus to no Element, the focus point is that
\* landing, and when it finds an Element elsewhere, the landing cell was empty.
C26_ExitLandingOffsetByOrigin ==
    [][ (pc = "run" /\ Top.kind = "NavigateToParent") =>
           \E n \in {Top.node} : \E rect \in {sublayouts[Top.node][Top.layout_id].rect} :
           \E lp \in {Pt(rect.x_start + Scaled(rect.x_end - rect.x_start, Top.fx),
                         rect.y_start + Scaled(rect.y_end - rect.y_start, Top.fy))} :
              /\ Top.fx[2] = grid[Top.layout_id].x_size
              /\ Top.fy[2] = grid[Top.layout_id].y_size
              /\ pending'.kind \in {"NoNextItem", "ToParent", "ToChild"} =>
                    layout_state'[n] = SomePoint(lp.x, lp.y)
              /\ pending'.kind = "WithinLayout" =>
                    \/ layout_state'[n] = SomePoint(lp.x, lp.y)
                    \/ CellAt(n, lp) = NoItem ]_vars

\* C27: a child is entered with, per axis, the position of the target cell within
\* the child's Sublayout rect as a fraction in [0, 1), and lands at (size - 1)
\* times that fraction, a cell of its own grid that follows the position the
\* parent came from.  So when the child's run moves the focus to no Element, the
\* focus point is that landing, and when it finds an Element elsewhere, the
\* landing cell was empty.
C27_EntryLandingTracksFraction ==
    [][ (pc = "run" /\ Top.kind = "NavigateToChild") =>
           /\ 0 <= Top.fx[1] /\ Top.fx[1] < Top.fx[2]
           /\ 0 <= Top.fy[1] /\ Top.fy[1] < Top.fy[2]
           /\ \E n \in {Top.node} :
              \E lp \in {Pt(((grid[Top.node].x_size - 1) * Top.fx[1]) \div Top.fx[2],
                            ((grid[Top.node].y_size - 1) * Top.fy[1]) \div Top.fy[2])} :
                 /\ within_bounds(grid[n], lp.x, lp.y)
                 /\ pending'.kind \in {"NoNextItem", "ToParent", "ToChild"} =>
                       layout_state'[n] = SomePoint(lp.x, lp.y)
                 /\ pending'.kind = "WithinLayout" =>
                       \/ layout_state'[n] = SomePoint(lp.x, lp.y)
                       \/ CellAt(n, lp) = NoItem ]_vars

\* what one node's run comes to, with the node's layout_state after it
RunResult(kind, id, layout, ls) == [kind |-> kind, id |-> id, layout |-> layout, ls |-> ls]

\* what the occupant of the cell at p resolves to when the layout_state is ls: an
\* Element takes the focus point, a Sublayout is asked for
Resolution(n, ls, p) ==
    IF CellAt(n, p).kind = "Element"
    THEN RunResult("WithinLayout", CellAt(n, p).id, NoLayout, SomePoint(p.x, p.y))
    ELSE RunResult("ToChild", NoFocus, CellAt(n, p).id, ls)

\* the scan of navigate(Direction(d)) from layout_state ls, cell by cell: the edge
\* check, the first occupied cell of the primary line, the first Element of the
\* side scan in its order, else NoNextItem
ScanResult(n, ls, d) ==
    IF AtEdge(n, ls, d)
    THEN (IF parent[n] = NoLayout THEN RunResult("NoNextItem", NoFocus, NoLayout, ls)
                                  ELSE RunResult("ToParent", NoFocus, parent[n], ls))
    ELSE IF FirstHit(n, ls, d) > 0
         THEN Resolution(n, ls, LineCell(n, ls, d, FirstHit(n, ls, d)))
         ELSE The({IF vis = {}
                   THEN RunResult("NoNextItem", NoFocus, NoLayout, ls)
                   ELSE The({Resolution(n, ls, SideCell(n, ls, d, t[1], t[2], t[3])) :
                               t \in {CHOOSE t \in vis :
                                         \A u \in vis : u = t \/ ProbedBefore(t, u)}}) :
                   vis \in {VisibleBeside(n, ls, d)}})

\* C28: a node entered from its child or from its parent first sets its focus
\* point to the landing point; an occupied landing cell decides (an Element gives
\* WithinLayout of its id, a Sublayout is entered), and from an empty landing cell
\* the result is that of the whole scan of navigate(directive) with the landing
\* point as its anchor.
C28_LandThenResolveOrScan ==
    [][ (pc = "run" /\ Top.kind \in {"NavigateToChild", "NavigateToParent"}) =>
           \E n \in {Top.node} : \E lp \in {Landing(Top)} :
              /\ within_bounds(grid[n], lp.x, lp.y)
              /\ RunResult(pending'.kind, pending'.id, pending'.layout, layout_state'[n]) =
                    IF CellAt(n, lp) # NoItem
                    THEN Resolution(n, SomePoint(lp.x, lp.y), lp)
                    ELSE ScanResult(n, SomePoint(lp.x, lp.y), Top.directive.arg) ]_vars

\* a child was entered on an empty cell and the scan from that cell has found an
\* Element
C28_Witness ==
    /\ pc = "ret"
    /\ Top.kind = "NavigateToChild"
    /\ CellAt(Top.node, Landing(Top)) = NoItem
    /\ pending.kind = "WithinLayout"
    /\ layout_state[Top.node] # SomePoint(Landing(Top).x, Landing(Top).y)

\* C30: whenever the facade is between two calls (after its construction, after
\* every navigate that has returned, whatever its result, and after every insert),
\* the focus point of its current node addresses an Element and the facade's
\* cached focus id is the id of that Element.
C30_CachedFocusIsFocusedElement ==
    Idle =>
       /\ FocusValid(current_layout_ref)
       /\ ItemAt(current_layout_ref, layout_state[current_layout_ref]).id = current_focus_id

\* a navigate that went into a child has returned NoNextItem: the child's focus
\* point was left on a cell without an Element, the facade stayed where it was
C30_Witness ==
    /\ Idle
    /\ call.op = "navigate"
    /\ result = NoNextItem
    /\ \E m \in Nodes \ {current_layout_ref} :
          /\ parent[m] = current_layout_ref
          /\ layout_state[m].some
          /\ ~FocusValid(m)

\* a step of a top-level navigate(Button(b)): its call, a run of it, or its return
ButtonStep ==
    /\ directive'.kind = "Button"
    /\ (pc = "idle" /\ pc' = "run") \/ pc \in {"run", "lock", "ret"}

\* C31: navigate(Button(b)) on a node without a special action for b does what
\* navigate(Noop) does.  On the controller it changes no focus point, no grid and
\* neither the current node nor the cached focus id, takes no lock of another
\* node, and returns WithinLayout(cached focus id) when the current node's focus
\* is valid, an error otherwise; on any node it leaves the layout_state as it is
\* and returns WithinLayout(id of the Element under it) when there is one, an
\* error otherwise, never NoNextItem.
C31_ButtonWithoutActionIsNoop ==
    /\ [][ (ButtonStep /\ SpecialAction(current_layout_ref, directive'.arg) = "NoAction") =>
             /\ UNCHANGED <<grid, layout_state, grow_config, current_layout_ref,
                            current_focus_id>>
             /\ pc' \in {"run", "ret", "idle"}
             /\ Len(chain') <= 1
             /\ Returns =>
                   result' = IF FocusValid(current_layout_ref)
                             THEN WithinLayout(current_focus_id)
                             ELSE Failed ]_vars
    /\ [](Idle =>
            \A n \in Nodes : \A b \in Buttons :
                SpecialAction(n, b) = "NoAction" =>
                   \E out \in {navigate(n, layout_state[n], Button(b))} :
                      /\ out.ls = layout_state[n]
                      /\ ResultOf(out) # NoNextItem
                      /\ IF FocusValid(n)
                         THEN ResultOf(out) = WithinLayout(ItemAt(n, layout_state[n]).id)
                         ELSE ResultOf(out) = Failed)

\* a navigate(Button(b)) has returned the cached focus id on a nested node whose
\* focus is not at the origin, while another node's focus addresses no Element
C31_Witness ==
    /\ Idle
    /\ directive.kind = "Button"
    /\ SpecialAction(current_layout_ref, directive.arg) = "NoAction"
    /\ result = WithinLayout(current_focus_id)
    /\ current_layout_ref # root_layout
    /\ layout_state[current_layout_ref] # SomePoint(0, 0)
    /\ \E n \in Nodes : layout_state[n].some /\ ~FocusValid(n)

\* point p lies strictly beyond rect in direction d
Beyond(rect, p, d) ==
    CASE d = "Right" -> p.x > rect.x_end
      [] d = "Left" -> p.x < rect.x_start
      [] d = "Down" -> p.y > rect.y_end
      [] d = "Up" -> p.y < rect.y_start

\* C32: when navigate(Direction(d)) on a node whose focus is on Element e returns
\* WithinLayout, the new focus point lies strictly beyond e's rect in direction d
\* and addresses another occupant than e: the current Element is never selected
\* again and the focus never moves backwards.
C32_MovesBeyondCurrentElement ==
    [][ ( /\ pc = "run"
          /\ Top.kind = "Navigate"
          /\ Top.directive.kind = "Direction"
          /\ FocusValid(Top.node)
          /\ pending'.kind = "WithinLayout" ) =>
           \E n \in {Top.node} : \E e \in {ItemAt(Top.node, layout_state[Top.node])} :
              /\ layout_state'[n].some
              /\ Beyond(e.rect, layout_state'[n], Top.directive.arg)
              /\ CellAt(n, layout_state'[n]) # e
              /\ CellAt(n, layout_state'[n]).id = pending'.id ]_vars

\* navigate(Direction(Right)) from an Element more than one cell wide has returned
\* WithinLayout with the focus to the right of that Element's rect
C32_Witness ==
    /\ pc = "ret"
    /\ Len(chain) = 1
    /\ directive = Direction("Right")
    /\ pending.kind = "WithinLayout"
    /\ \E e \in ElementsIn(grid[Top.node]) :
          /\ e.id = current_focus_id
          /\ e.rect.x_end > e.rect.x_start
          /\ layout_state[Top.node].x > e.rect.x_end

\* this step is an insert call that succeeds
InsertSucceeds == pc = "idle" /\ call'.op = "insert" /\ result' = Done

\* C33: a successful insert changes nothing of navigation.  In the node it is
\* called on, one new Element with the inserted id fills the cells of its rect,
\* all of them empty before, every other cell keeps its occupant, and of the grow
\* config only the cursor changes; no other node's grid or grow config, no node's
\* focus point, parent link or child index, and neither the facade's current node
\* nor its cached focus id changes.
C33_InsertLeavesNavigationAlone ==
    [][ InsertSucceeds =>
           \E n \in {call'.node} :
              /\ pc' = "idle"
              /\ UNCHANGED <<layout_state, current_layout_ref, current_focus_id, treeVars>>
              /\ \A m \in Nodes \ {n} :
                    grid'[m] = grid[m] /\ grow_config'[m] = grow_config[m]
              /\ grow_config'[n] =
                    [grow_config[n] EXCEPT
                       !.current_grow_point = grow_config'[n].current_grow_point]
              /\ \E e \in ElementsIn(grid'[n]) :
                    /\ e.id = call'.id
                    /\ \A x \in DOMAIN grid[n].grid : \A y \in DOMAIN grid[n].grid[x] :
                          IF <<x - 1, y - 1>> \in RectCells(e.rect)
                          THEN /\ grid[n].grid[x][y] = NoItem
                               /\ grid'[n].grid[x][y] = e
                          ELSE grid'[n].grid[x][y] = grid[n].grid[x][y]
                    /\ \A x \in DOMAIN grid'[n].grid : \A y \in DOMAIN grid'[n].grid[x] :
                          (x \notin DOMAIN grid[n].grid \/ y \notin DOMAIN grid[n].grid[x]) =>
                             grid'[n].grid[x][y] \in {NoItem, e} ]_vars

\* insert_elem has just succeeded on the facade's current node, a nested node
\* that already held an Element under the focus point and the cached focus id
C33_Witness ==
    /\ Idle
    /\ call.op = "insert"
    /\ result = Done
    /\ call.node = current_layout_ref
    /\ parent[call.node] # NoLayout
    /\ inserted[call.node] >= 2
    /\ FocusValid(call.node)
    /\ ItemAt(call.node, layout_state[call.node]).id = current_focus_id

====
